---- MODULE Spec2Model ----
(***************************************************************************)
(* Model of the analytics backend in src/main.py: the type inferencer      *)
(* (infer_type), the upload handler (upload_dataset) with its schema and   *)
(* sample extraction, the insight engine (generate_insights) and the chart *)
(* endpoints, over a document store with the collections "dataset",        *)
(* "insight" and "chart".                                                  *)
(*                                                                         *)
(* A Python str is the sequence of its code points: "1.5" is               *)
(* <<49, 46, 53>>, a form feed is 12, ARABIC-INDIC DIGIT THREE is 1635.    *)
(* Text(<<"1", ".", "5">>) writes such a sequence from its printable ASCII *)
(* characters; bytes are the sequence of their values.  A record of a      *)
(* CSV file (what csv.reader returns) is a sequence of such strings.  The  *)
(* character tables are those of Unicode 14.0, the version of CPython      *)
(* 3.11.                                                                   *)
(*                                                                         *)
(* upload_dataset is a coroutine that awaits the content of the file       *)
(* after its checks: awaiting is the bag of the requests suspended there.  *)
(* req and resp are the request answered last and its response.            *)
(***************************************************************************)
EXTENDS Integers, Sequences, FiniteSets, Bags, TLC

VARIABLES env, datasets, insights, charts, awaiting, req, resp, value, inferred

vars == <<env, datasets, insights, charts, awaiting, req, resp, value, inferred>>

(***************************************************************************)
(* Bounds of the model.                                                    *)
(***************************************************************************)
MaxStrLen == 4
MaxRows == 3
MaxTail == 1
MaxDocs == 4
MaxAwaiting == 2

(***************************************************************************)
(* Loops.  Fold(Op, st, lo, hi) is the state after                         *)
(*     for i in range(lo, hi + 1): st = Op(st, i)                          *)
(* computed as the turns of the first half of the range, then those of the *)
(* second half from the state the first half leaves.                       *)
(***************************************************************************)
RECURSIVE Fold(_, _, _, _)
Fold(Op(_, _), st, lo, hi) ==
    IF lo > hi THEN st
    ELSE IF lo = hi THEN Op(st, lo)
    ELSE CHOOSE last \in
             {Fold(Op, half, (lo + hi) \div 2 + 1, hi) :
                 half \in {Fold(Op, st, lo, (lo + hi) \div 2)}} : TRUE

Min(a, b) == IF a <= b THEN a ELSE b
Max(a, b) == IF a >= b THEN a ELSE b

(***************************************************************************)
(* Characters and strings.                                                 *)
(***************************************************************************)
\* The printable ASCII characters in code point order, from the space (32).
\* The grave accent (96) is written "grave".
Ascii ==
    <<" ", "!", "\"", "#", "$", "%", "&", "'", "(", ")", "*", "+", ",", "-",
      ".", "/", "0", "1", "2", "3", "4", "5", "6", "7", "8", "9", ":", ";",
      "<", "=", ">", "?", "@", "A", "B", "C", "D", "E", "F", "G", "H", "I",
      "J", "K", "L", "M", "N", "O", "P", "Q", "R", "S", "T", "U", "V", "W",
      "X", "Y", "Z", "[", "\\", "]", "^", "_", "grave", "a", "b", "c", "d", "e",
      "f", "g", "h", "i", "j", "k", "l", "m", "n", "o", "p", "q", "r", "s",
      "t", "u", "v", "w", "x", "y", "z", "{", "|", "}", "~">>

\* ord(c) of a printable ASCII character, and the str of a tuple of them.
ord(c) == 31 + CHOOSE i \in 1..Len(Ascii) : Ascii[i] = c
Text(s) == [i \in 1..Len(s) |-> ord(s[i])]

\* The characters that str.strip() removes (str.isspace()).
Whitespace ==
    (9..13) \cup (28..32) \cup {133, 160, 5760} \cup (8192..8202)
    \cup {8232, 8233, 8239, 8287, 12288}

\* The characters that int() and float() skip around a literal: the ASCII
\* ones of the C locale isspace() and the Unicode spaces beyond ASCII.
LiteralSpace == Whitespace \ (28..31)

\* The code points of the digit zero of each script (general category Nd);
\* the digits one to nine follow it.
DigitZeros ==
    {48, 1632, 1776, 1984, 2406, 2534, 2662, 2790, 2918, 3046, 3174, 3302,
     3430, 3558, 3664, 3792, 3872, 4160, 4240, 6112, 6160, 6470, 6608, 6784,
     6800, 6992, 7088, 7232, 7248, 42528, 43216, 43264, 43472, 43504, 43600,
     44016, 65296, 66720, 68912, 69734, 69872, 69942, 70096, 70384, 70736,
     70864, 71248, 71360, 71472, 71904, 72016, 72784, 73040, 73120, 92768,
     92864, 93008, 120782, 120792, 120802, 120812, 120822, 123200, 123632,
     125264, 130032}

\* The decimal digits that int() and float() read.
Digits == UNION {z..(z + 9) : z \in DigitZeros}

IsSpace(c) == c \in Whitespace
IsDigit(c) == IF c < 128 THEN 48 <= c /\ c <= 57 ELSE c \in Digits

\* The value of the decimal digit c.
DigitValue(c) ==
    IF c < 128 THEN c - 48
    ELSE c - (CHOOSE z \in DigitZeros : z <= c /\ c <= z + 9)

SubStr(s, i, j) == [k \in 1..(IF j >= i THEN j - i + 1 ELSE 0) |-> s[i + k - 1]]

\* The index of the first character from i on that is not in the set
\* spaces (Len(s) + 1 when there is none), and the index of the last
\* character up to j that is not (0 when there is none).
FirstOutside(s, i, spaces) ==
    IF \A k \in i..Len(s) : s[k] \in spaces THEN Len(s) + 1
    ELSE CHOOSE k \in i..Len(s) :
            s[k] \notin spaces /\ \A m \in i..(k - 1) : s[m] \in spaces

LastOutside(s, j, spaces) ==
    IF \A k \in 1..j : s[k] \in spaces THEN 0
    ELSE CHOOSE k \in 1..j :
            s[k] \notin spaces /\ \A m \in (k + 1)..j : s[m] \in spaces

LStripFrom(s, i) == FirstOutside(s, i, Whitespace)
RStripFrom(s, j) == LastOutside(s, j, Whitespace)

\* str.strip(): the string without its leading and trailing whitespace.
strip(s) == SubStr(s, LStripFrom(s, 1), RStripFrom(s, Len(s)))

\* The literal that int() and float() parse: the string without the
\* whitespace they skip at both ends.
Literal(s) ==
    SubStr(s, FirstOutside(s, 1, LiteralSpace), LastOutside(s, Len(s), LiteralSpace))

\* Index after an optional sign at position i.
AfterSign(s, i) == IF i <= Len(s) /\ s[i] \in {43, 45} THEN i + 1 ELSE i

\* Index after the longest run of digits that starts at i (i itself when no
\* digit is there).
DigitRun(s, i) ==
    IF \A k \in i..Len(s) : IsDigit(s[k]) THEN Max(i, Len(s) + 1)
    ELSE CHOOSE k \in i..Len(s) :
            ~IsDigit(s[k]) /\ \A m \in i..(k - 1) : IsDigit(s[m])

\* Every underscore of t stands between two digits.
UnderscoresOk(t) ==
    \A k \in 1..Len(t) :
        t[k] = 95 => k > 1 /\ k < Len(t) /\ IsDigit(t[k - 1]) /\ IsDigit(t[k + 1])

NoUnderscores(t) == SelectSeq(t, LAMBDA c : c # 95)

\* sys.get_int_max_str_digits(): int() refuses a literal of more digits.
int_max_str_digits == 4300

\* The literal without underscores is a sign and at least one digit, of no
\* more digits than the limit.
IntDigits(w, p) ==
    /\ p <= Len(w)
    /\ \A k \in p..Len(w) : IsDigit(w[k])
    /\ Len(w) - p + 1 <= int_max_str_digits

\* int(s) does not raise: whitespace, an optional sign, decimal digits with
\* single underscores between them, whitespace.
IntParses(s) ==
    /\ UnderscoresOk(Literal(s))
    /\ IntDigits(NoUnderscores(Literal(s)), AfterSign(NoUnderscores(Literal(s)), 1))

\* The lower case of an ASCII letter, which is all that float() folds.
AsciiLower(s) ==
    [k \in 1..Len(s) |-> IF 65 <= s[k] /\ s[k] <= 90 THEN s[k] + 32 ELSE s[k]]

\* inf, nan, infinity
SpecialFloats ==
    { <<105, 110, 102>>, <<110, 97, 110>>,
      <<105, 110, 102, 105, 110, 105, 116, 121>> }

\* Positions of the parts of a decimal float literal in the text t (the
\* literal without underscores): p (after the sign), i1 (after the integer
\* digits), i2 (after the fraction), q (after the exponent's sign), i3 (the
\* end of the literal).
ScanEnd(t, p, i1, hasDot, i2, hasExp, q, i3) ==
    [p |-> p, i1 |-> i1, hasDot |-> hasDot, i2 |-> i2, hasExp |-> hasExp,
     q |-> q, i3 |-> i3,
     ok |-> /\ i1 > p \/ (hasDot /\ i2 > i1 + 1)
            /\ hasExp => i3 > q
            /\ i3 = Len(t) + 1]

ScanExpDigits(t, p, i1, hasDot, i2, hasExp, q) ==
    ScanEnd(t, p, i1, hasDot, i2, hasExp, q, IF hasExp THEN DigitRun(t, q) ELSE i2)

ScanExp(t, p, i1, hasDot, i2, hasExp) ==
    ScanExpDigits(t, p, i1, hasDot, i2, hasExp,
                  IF hasExp THEN AfterSign(t, i2 + 1) ELSE i2)

ScanFrac(t, p, i1, hasDot, i2) ==
    ScanExp(t, p, i1, hasDot, i2, i2 <= Len(t) /\ t[i2] \in {101, 69})

ScanDot(t, p, i1, hasDot) ==
    ScanFrac(t, p, i1, hasDot, IF hasDot THEN DigitRun(t, i1 + 1) ELSE i1)

ScanInt(t, p, i1) == ScanDot(t, p, i1, i1 <= Len(t) /\ t[i1] = 46)

ScanSign(t, p) == ScanInt(t, p, DigitRun(t, p))

FloatScan(t) == ScanSign(t, AfterSign(t, 1))

\* The literal t without its underscores is inf, nan or infinity after a
\* sign, in any case of the letters.
IsSpecial(t) == AsciiLower(SubStr(t, AfterSign(t, 1), Len(t))) \in SpecialFloats

\* float(s) does not raise.
FloatParses(s) ==
    /\ UnderscoresOk(Literal(s))
    /\ \/ IsSpecial(NoUnderscores(Literal(s)))
       \/ FloatScan(NoUnderscores(Literal(s))).ok

\* float as the first test: the cascade's order reversed.
infer_type_FloatFirst(v) ==
    IF strip(v) = <<>> THEN "null"
    ELSE IF FloatParses(v) THEN "float"
    ELSE IF IntParses(v) THEN "int"
    ELSE "string"

infer_type(v) ==
    IF strip(v) = <<>> THEN "null"
    ELSE IF IntParses(v) THEN "int"
    ELSE IF FloatParses(v) THEN "float"
    ELSE "string"

\* The simple lower-case mappings of str.lower(), as runs <<first, last,
\* step, offset>>: a code point of a run maps to itself plus the offset.
LowerRuns ==
    {<<65, 90, 1, 32>>, <<192, 214, 1, 32>>, <<216, 222, 1, 32>>,
     <<256, 302, 2, 1>>, <<306, 310, 2, 1>>, <<313, 327, 2, 1>>,
     <<330, 374, 2, 1>>, <<376, 376, 1, -121>>, <<377, 381, 2, 1>>,
     <<385, 385, 1, 210>>, <<386, 388, 2, 1>>, <<390, 390, 1, 206>>,
     <<391, 391, 1, 1>>, <<393, 394, 1, 205>>, <<395, 395, 1, 1>>,
     <<398, 398, 1, 79>>, <<399, 399, 1, 202>>, <<400, 400, 1, 203>>,
     <<401, 401, 1, 1>>, <<403, 403, 1, 205>>, <<404, 404, 1, 207>>,
     <<406, 406, 1, 211>>, <<407, 407, 1, 209>>, <<408, 408, 1, 1>>,
     <<412, 412, 1, 211>>, <<413, 413, 1, 213>>, <<415, 415, 1, 214>>,
     <<416, 420, 2, 1>>, <<422, 422, 1, 218>>, <<423, 423, 1, 1>>,
     <<425, 425, 1, 218>>, <<428, 428, 1, 1>>, <<430, 430, 1, 218>>,
     <<431, 431, 1, 1>>, <<433, 434, 1, 217>>, <<435, 437, 2, 1>>,
     <<439, 439, 1, 219>>, <<440, 440, 1, 1>>, <<444, 444, 1, 1>>,
     <<452, 452, 1, 2>>, <<453, 453, 1, 1>>, <<455, 455, 1, 2>>,
     <<456, 456, 1, 1>>, <<458, 458, 1, 2>>, <<459, 475, 2, 1>>,
     <<478, 494, 2, 1>>, <<497, 497, 1, 2>>, <<498, 500, 2, 1>>,
     <<502, 502, 1, -97>>, <<503, 503, 1, -56>>, <<504, 542, 2, 1>>,
     <<544, 544, 1, -130>>, <<546, 562, 2, 1>>, <<570, 570, 1, 10795>>,
     <<571, 571, 1, 1>>, <<573, 573, 1, -163>>, <<574, 574, 1, 10792>>,
     <<577, 577, 1, 1>>, <<579, 579, 1, -195>>, <<580, 580, 1, 69>>,
     <<581, 581, 1, 71>>, <<582, 590, 2, 1>>, <<880, 882, 2, 1>>,
     <<886, 886, 1, 1>>, <<895, 895, 1, 116>>, <<902, 902, 1, 38>>,
     <<904, 906, 1, 37>>, <<908, 908, 1, 64>>, <<910, 911, 1, 63>>,
     <<913, 929, 1, 32>>, <<931, 939, 1, 32>>, <<975, 975, 1, 8>>,
     <<984, 1006, 2, 1>>, <<1012, 1012, 1, -60>>, <<1015, 1015, 1, 1>>,
     <<1017, 1017, 1, -7>>, <<1018, 1018, 1, 1>>, <<1021, 1023, 1, -130>>,
     <<1024, 1039, 1, 80>>, <<1040, 1071, 1, 32>>, <<1120, 1152, 2, 1>>,
     <<1162, 1214, 2, 1>>, <<1216, 1216, 1, 15>>, <<1217, 1229, 2, 1>>,
     <<1232, 1326, 2, 1>>, <<1329, 1366, 1, 48>>, <<4256, 4293, 1, 7264>>,
     <<4295, 4295, 1, 7264>>, <<4301, 4301, 1, 7264>>,
     <<5024, 5103, 1, 38864>>, <<5104, 5109, 1, 8>>,
     <<7312, 7354, 1, -3008>>, <<7357, 7359, 1, -3008>>,
     <<7680, 7828, 2, 1>>, <<7838, 7838, 1, -7615>>, <<7840, 7934, 2, 1>>,
     <<7944, 7951, 1, -8>>, <<7960, 7965, 1, -8>>, <<7976, 7983, 1, -8>>,
     <<7992, 7999, 1, -8>>, <<8008, 8013, 1, -8>>, <<8025, 8031, 2, -8>>,
     <<8040, 8047, 1, -8>>, <<8072, 8079, 1, -8>>, <<8088, 8095, 1, -8>>,
     <<8104, 8111, 1, -8>>, <<8120, 8121, 1, -8>>, <<8122, 8123, 1, -74>>,
     <<8124, 8124, 1, -9>>, <<8136, 8139, 1, -86>>, <<8140, 8140, 1, -9>>,
     <<8152, 8153, 1, -8>>, <<8154, 8155, 1, -100>>, <<8168, 8169, 1, -8>>,
     <<8170, 8171, 1, -112>>, <<8172, 8172, 1, -7>>, <<8184, 8185, 1, -128>>,
     <<8186, 8187, 1, -126>>, <<8188, 8188, 1, -9>>,
     <<8486, 8486, 1, -7517>>, <<8490, 8490, 1, -8383>>,
     <<8491, 8491, 1, -8262>>, <<8498, 8498, 1, 28>>, <<8544, 8559, 1, 16>>,
     <<8579, 8579, 1, 1>>, <<9398, 9423, 1, 26>>, <<11264, 11311, 1, 48>>,
     <<11360, 11360, 1, 1>>, <<11362, 11362, 1, -10743>>,
     <<11363, 11363, 1, -3814>>, <<11364, 11364, 1, -10727>>,
     <<11367, 11371, 2, 1>>, <<11373, 11373, 1, -10780>>,
     <<11374, 11374, 1, -10749>>, <<11375, 11375, 1, -10783>>,
     <<11376, 11376, 1, -10782>>, <<11378, 11378, 1, 1>>,
     <<11381, 11381, 1, 1>>, <<11390, 11391, 1, -10815>>,
     <<11392, 11490, 2, 1>>, <<11499, 11501, 2, 1>>, <<11506, 11506, 1, 1>>,
     <<42560, 42604, 2, 1>>, <<42624, 42650, 2, 1>>, <<42786, 42798, 2, 1>>,
     <<42802, 42862, 2, 1>>, <<42873, 42875, 2, 1>>,
     <<42877, 42877, 1, -35332>>, <<42878, 42886, 2, 1>>,
     <<42891, 42891, 1, 1>>, <<42893, 42893, 1, -42280>>,
     <<42896, 42898, 2, 1>>, <<42902, 42920, 2, 1>>,
     <<42922, 42922, 1, -42308>>, <<42923, 42923, 1, -42319>>,
     <<42924, 42924, 1, -42315>>, <<42925, 42925, 1, -42305>>,
     <<42926, 42926, 1, -42308>>, <<42928, 42928, 1, -42258>>,
     <<42929, 42929, 1, -42282>>, <<42930, 42930, 1, -42261>>,
     <<42931, 42931, 1, 928>>, <<42932, 42946, 2, 1>>,
     <<42948, 42948, 1, -48>>, <<42949, 42949, 1, -42307>>,
     <<42950, 42950, 1, -35384>>, <<42951, 42953, 2, 1>>,
     <<42960, 42960, 1, 1>>, <<42966, 42968, 2, 1>>, <<42997, 42997, 1, 1>>,
     <<65313, 65338, 1, 32>>, <<66560, 66599, 1, 40>>,
     <<66736, 66771, 1, 40>>, <<66928, 66938, 1, 39>>,
     <<66940, 66954, 1, 39>>, <<66956, 66962, 1, 39>>,
     <<66964, 66965, 1, 39>>, <<68736, 68786, 1, 64>>,
     <<71840, 71871, 1, 32>>, <<93760, 93791, 1, 32>>,
     <<125184, 125217, 1, 34>>}

\* The ranges <<first, last>> of the cased code points that are not
\* case-ignorable.
Cased ==
    {<<65, 90>>, <<97, 122>>, <<170, 170>>, <<181, 181>>, <<186, 186>>,
     <<192, 214>>, <<216, 246>>, <<248, 442>>, <<444, 447>>, <<452, 659>>,
     <<661, 687>>, <<880, 883>>, <<886, 887>>, <<891, 893>>, <<895, 895>>,
     <<902, 902>>, <<904, 906>>, <<908, 908>>, <<910, 929>>, <<931, 1013>>,
     <<1015, 1153>>, <<1162, 1327>>, <<1329, 1366>>, <<1376, 1416>>,
     <<4256, 4293>>, <<4295, 4295>>, <<4301, 4301>>, <<4304, 4346>>,
     <<4349, 4351>>, <<5024, 5109>>, <<5112, 5117>>, <<7296, 7304>>,
     <<7312, 7354>>, <<7357, 7359>>, <<7424, 7467>>, <<7531, 7543>>,
     <<7545, 7578>>, <<7680, 7957>>, <<7960, 7965>>, <<7968, 8005>>,
     <<8008, 8013>>, <<8016, 8023>>, <<8025, 8025>>, <<8027, 8027>>,
     <<8029, 8029>>, <<8031, 8061>>, <<8064, 8116>>, <<8118, 8124>>,
     <<8126, 8126>>, <<8130, 8132>>, <<8134, 8140>>, <<8144, 8147>>,
     <<8150, 8155>>, <<8160, 8172>>, <<8178, 8180>>, <<8182, 8188>>,
     <<8450, 8450>>, <<8455, 8455>>, <<8458, 8467>>, <<8469, 8469>>,
     <<8473, 8477>>, <<8484, 8484>>, <<8486, 8486>>, <<8488, 8488>>,
     <<8490, 8493>>, <<8495, 8500>>, <<8505, 8505>>, <<8508, 8511>>,
     <<8517, 8521>>, <<8526, 8526>>, <<8544, 8575>>, <<8579, 8580>>,
     <<9398, 9449>>, <<11264, 11387>>, <<11390, 11492>>, <<11499, 11502>>,
     <<11506, 11507>>, <<11520, 11557>>, <<11559, 11559>>, <<11565, 11565>>,
     <<42560, 42605>>, <<42624, 42651>>, <<42786, 42863>>, <<42865, 42887>>,
     <<42891, 42894>>, <<42896, 42954>>, <<42960, 42961>>, <<42963, 42963>>,
     <<42965, 42969>>, <<42997, 42998>>, <<43002, 43002>>, <<43824, 43866>>,
     <<43872, 43880>>, <<43888, 43967>>, <<64256, 64262>>, <<64275, 64279>>,
     <<65313, 65338>>, <<65345, 65370>>, <<66560, 66639>>, <<66736, 66771>>,
     <<66776, 66811>>, <<66928, 66938>>, <<66940, 66954>>, <<66956, 66962>>,
     <<66964, 66965>>, <<66967, 66977>>, <<66979, 66993>>, <<66995, 67001>>,
     <<67003, 67004>>, <<68736, 68786>>, <<68800, 68850>>, <<71840, 71903>>,
     <<93760, 93823>>, <<119808, 119892>>, <<119894, 119964>>,
     <<119966, 119967>>, <<119970, 119970>>, <<119973, 119974>>,
     <<119977, 119980>>, <<119982, 119993>>, <<119995, 119995>>,
     <<119997, 120003>>, <<120005, 120069>>, <<120071, 120074>>,
     <<120077, 120084>>, <<120086, 120092>>, <<120094, 120121>>,
     <<120123, 120126>>, <<120128, 120132>>, <<120134, 120134>>,
     <<120138, 120144>>, <<120146, 120485>>, <<120488, 120512>>,
     <<120514, 120538>>, <<120540, 120570>>, <<120572, 120596>>,
     <<120598, 120628>>, <<120630, 120654>>, <<120656, 120686>>,
     <<120688, 120712>>, <<120714, 120744>>, <<120746, 120770>>,
     <<120772, 120779>>, <<122624, 122633>>, <<122635, 122654>>,
     <<125184, 125251>>, <<127280, 127305>>, <<127312, 127337>>,
     <<127344, 127369>>}

\* The ranges of the case-ignorable code points.
CaseIgnorable ==
    {<<39, 39>>, <<46, 46>>, <<58, 58>>, <<94, 94>>, <<96, 96>>,
     <<168, 168>>, <<173, 173>>, <<175, 175>>, <<180, 180>>, <<183, 184>>,
     <<688, 879>>, <<884, 885>>, <<890, 890>>, <<900, 901>>, <<903, 903>>,
     <<1155, 1161>>, <<1369, 1369>>, <<1375, 1375>>, <<1425, 1469>>,
     <<1471, 1471>>, <<1473, 1474>>, <<1476, 1477>>, <<1479, 1479>>,
     <<1524, 1524>>, <<1536, 1541>>, <<1552, 1562>>, <<1564, 1564>>,
     <<1600, 1600>>, <<1611, 1631>>, <<1648, 1648>>, <<1750, 1757>>,
     <<1759, 1768>>, <<1770, 1773>>, <<1807, 1807>>, <<1809, 1809>>,
     <<1840, 1866>>, <<1958, 1968>>, <<2027, 2037>>, <<2042, 2042>>,
     <<2045, 2045>>, <<2070, 2093>>, <<2137, 2139>>, <<2184, 2184>>,
     <<2192, 2193>>, <<2200, 2207>>, <<2249, 2306>>, <<2362, 2362>>,
     <<2364, 2364>>, <<2369, 2376>>, <<2381, 2381>>, <<2385, 2391>>,
     <<2402, 2403>>, <<2417, 2417>>, <<2433, 2433>>, <<2492, 2492>>,
     <<2497, 2500>>, <<2509, 2509>>, <<2530, 2531>>, <<2558, 2558>>,
     <<2561, 2562>>, <<2620, 2620>>, <<2625, 2626>>, <<2631, 2632>>,
     <<2635, 2637>>, <<2641, 2641>>, <<2672, 2673>>, <<2677, 2677>>,
     <<2689, 2690>>, <<2748, 2748>>, <<2753, 2757>>, <<2759, 2760>>,
     <<2765, 2765>>, <<2786, 2787>>, <<2810, 2815>>, <<2817, 2817>>,
     <<2876, 2876>>, <<2879, 2879>>, <<2881, 2884>>, <<2893, 2893>>,
     <<2901, 2902>>, <<2914, 2915>>, <<2946, 2946>>, <<3008, 3008>>,
     <<3021, 3021>>, <<3072, 3072>>, <<3076, 3076>>, <<3132, 3132>>,
     <<3134, 3136>>, <<3142, 3144>>, <<3146, 3149>>, <<3157, 3158>>,
     <<3170, 3171>>, <<3201, 3201>>, <<3260, 3260>>, <<3263, 3263>>,
     <<3270, 3270>>, <<3276, 3277>>, <<3298, 3299>>, <<3328, 3329>>,
     <<3387, 3388>>, <<3393, 3396>>, <<3405, 3405>>, <<3426, 3427>>,
     <<3457, 3457>>, <<3530, 3530>>, <<3538, 3540>>, <<3542, 3542>>,
     <<3633, 3633>>, <<3636, 3642>>, <<3654, 3662>>, <<3761, 3761>>,
     <<3764, 3772>>, <<3782, 3782>>, <<3784, 3789>>, <<3864, 3865>>,
     <<3893, 3893>>, <<3895, 3895>>, <<3897, 3897>>, <<3953, 3966>>,
     <<3968, 3972>>, <<3974, 3975>>, <<3981, 3991>>, <<3993, 4028>>,
     <<4038, 4038>>, <<4141, 4144>>, <<4146, 4151>>, <<4153, 4154>>,
     <<4157, 4158>>, <<4184, 4185>>, <<4190, 4192>>, <<4209, 4212>>,
     <<4226, 4226>>, <<4229, 4230>>, <<4237, 4237>>, <<4253, 4253>>,
     <<4348, 4348>>, <<4957, 4959>>, <<5906, 5908>>, <<5938, 5939>>,
     <<5970, 5971>>, <<6002, 6003>>, <<6068, 6069>>, <<6071, 6077>>,
     <<6086, 6086>>, <<6089, 6099>>, <<6103, 6103>>, <<6109, 6109>>,
     <<6155, 6159>>, <<6211, 6211>>, <<6277, 6278>>, <<6313, 6313>>,
     <<6432, 6434>>, <<6439, 6440>>, <<6450, 6450>>, <<6457, 6459>>,
     <<6679, 6680>>, <<6683, 6683>>, <<6742, 6742>>, <<6744, 6750>>,
     <<6752, 6752>>, <<6754, 6754>>, <<6757, 6764>>, <<6771, 6780>>,
     <<6783, 6783>>, <<6823, 6823>>, <<6832, 6862>>, <<6912, 6915>>,
     <<6964, 6964>>, <<6966, 6970>>, <<6972, 6972>>, <<6978, 6978>>,
     <<7019, 7027>>, <<7040, 7041>>, <<7074, 7077>>, <<7080, 7081>>,
     <<7083, 7085>>, <<7142, 7142>>, <<7144, 7145>>, <<7149, 7149>>,
     <<7151, 7153>>, <<7212, 7219>>, <<7222, 7223>>, <<7288, 7293>>,
     <<7376, 7378>>, <<7380, 7392>>, <<7394, 7400>>, <<7405, 7405>>,
     <<7412, 7412>>, <<7416, 7417>>, <<7468, 7530>>, <<7544, 7544>>,
     <<7579, 7679>>, <<8125, 8125>>, <<8127, 8129>>, <<8141, 8143>>,
     <<8157, 8159>>, <<8173, 8175>>, <<8189, 8190>>, <<8203, 8207>>,
     <<8216, 8217>>, <<8228, 8228>>, <<8231, 8231>>, <<8234, 8238>>,
     <<8288, 8292>>, <<8294, 8303>>, <<8305, 8305>>, <<8319, 8319>>,
     <<8336, 8348>>, <<8400, 8432>>, <<11388, 11389>>, <<11503, 11505>>,
     <<11631, 11631>>, <<11647, 11647>>, <<11744, 11775>>, <<11823, 11823>>,
     <<12293, 12293>>, <<12330, 12333>>, <<12337, 12341>>, <<12347, 12347>>,
     <<12441, 12446>>, <<12540, 12542>>, <<40981, 40981>>, <<42232, 42237>>,
     <<42508, 42508>>, <<42607, 42610>>, <<42612, 42621>>, <<42623, 42623>>,
     <<42652, 42655>>, <<42736, 42737>>, <<42752, 42785>>, <<42864, 42864>>,
     <<42888, 42890>>, <<42994, 42996>>, <<43000, 43001>>, <<43010, 43010>>,
     <<43014, 43014>>, <<43019, 43019>>, <<43045, 43046>>, <<43052, 43052>>,
     <<43204, 43205>>, <<43232, 43249>>, <<43263, 43263>>, <<43302, 43309>>,
     <<43335, 43345>>, <<43392, 43394>>, <<43443, 43443>>, <<43446, 43449>>,
     <<43452, 43453>>, <<43471, 43471>>, <<43493, 43494>>, <<43561, 43566>>,
     <<43569, 43570>>, <<43573, 43574>>, <<43587, 43587>>, <<43596, 43596>>,
     <<43632, 43632>>, <<43644, 43644>>, <<43696, 43696>>, <<43698, 43700>>,
     <<43703, 43704>>, <<43710, 43711>>, <<43713, 43713>>, <<43741, 43741>>,
     <<43756, 43757>>, <<43763, 43764>>, <<43766, 43766>>, <<43867, 43871>>,
     <<43881, 43883>>, <<44005, 44005>>, <<44008, 44008>>, <<44013, 44013>>,
     <<64286, 64286>>, <<64434, 64450>>, <<65024, 65039>>, <<65043, 65043>>,
     <<65056, 65071>>, <<65106, 65106>>, <<65109, 65109>>, <<65279, 65279>>,
     <<65287, 65287>>, <<65294, 65294>>, <<65306, 65306>>, <<65342, 65342>>,
     <<65344, 65344>>, <<65392, 65392>>, <<65438, 65439>>, <<65507, 65507>>,
     <<65529, 65531>>, <<66045, 66045>>, <<66272, 66272>>, <<66422, 66426>>,
     <<67456, 67461>>, <<67463, 67504>>, <<67506, 67514>>, <<68097, 68099>>,
     <<68101, 68102>>, <<68108, 68111>>, <<68152, 68154>>, <<68159, 68159>>,
     <<68325, 68326>>, <<68900, 68903>>, <<69291, 69292>>, <<69446, 69456>>,
     <<69506, 69509>>, <<69633, 69633>>, <<69688, 69702>>, <<69744, 69744>>,
     <<69747, 69748>>, <<69759, 69761>>, <<69811, 69814>>, <<69817, 69818>>,
     <<69821, 69821>>, <<69826, 69826>>, <<69837, 69837>>, <<69888, 69890>>,
     <<69927, 69931>>, <<69933, 69940>>, <<70003, 70003>>, <<70016, 70017>>,
     <<70070, 70078>>, <<70089, 70092>>, <<70095, 70095>>, <<70191, 70193>>,
     <<70196, 70196>>, <<70198, 70199>>, <<70206, 70206>>, <<70367, 70367>>,
     <<70371, 70378>>, <<70400, 70401>>, <<70459, 70460>>, <<70464, 70464>>,
     <<70502, 70508>>, <<70512, 70516>>, <<70712, 70719>>, <<70722, 70724>>,
     <<70726, 70726>>, <<70750, 70750>>, <<70835, 70840>>, <<70842, 70842>>,
     <<70847, 70848>>, <<70850, 70851>>, <<71090, 71093>>, <<71100, 71101>>,
     <<71103, 71104>>, <<71132, 71133>>, <<71219, 71226>>, <<71229, 71229>>,
     <<71231, 71232>>, <<71339, 71339>>, <<71341, 71341>>, <<71344, 71349>>,
     <<71351, 71351>>, <<71453, 71455>>, <<71458, 71461>>, <<71463, 71467>>,
     <<71727, 71735>>, <<71737, 71738>>, <<71995, 71996>>, <<71998, 71998>>,
     <<72003, 72003>>, <<72148, 72151>>, <<72154, 72155>>, <<72160, 72160>>,
     <<72193, 72202>>, <<72243, 72248>>, <<72251, 72254>>, <<72263, 72263>>,
     <<72273, 72278>>, <<72281, 72283>>, <<72330, 72342>>, <<72344, 72345>>,
     <<72752, 72758>>, <<72760, 72765>>, <<72767, 72767>>, <<72850, 72871>>,
     <<72874, 72880>>, <<72882, 72883>>, <<72885, 72886>>, <<73009, 73014>>,
     <<73018, 73018>>, <<73020, 73021>>, <<73023, 73029>>, <<73031, 73031>>,
     <<73104, 73105>>, <<73109, 73109>>, <<73111, 73111>>, <<73459, 73460>>,
     <<78896, 78904>>, <<92912, 92916>>, <<92976, 92982>>, <<92992, 92995>>,
     <<94031, 94031>>, <<94095, 94111>>, <<94176, 94177>>, <<94179, 94180>>,
     <<110576, 110579>>, <<110581, 110587>>, <<110589, 110590>>,
     <<113821, 113822>>, <<113824, 113827>>, <<118528, 118573>>,
     <<118576, 118598>>, <<119143, 119145>>, <<119155, 119170>>,
     <<119173, 119179>>, <<119210, 119213>>, <<119362, 119364>>,
     <<121344, 121398>>, <<121403, 121452>>, <<121461, 121461>>,
     <<121476, 121476>>, <<121499, 121503>>, <<121505, 121519>>,
     <<122880, 122886>>, <<122888, 122904>>, <<122907, 122913>>,
     <<122915, 122916>>, <<122918, 122922>>, <<123184, 123197>>,
     <<123566, 123566>>, <<123628, 123631>>, <<125136, 125142>>,
     <<125252, 125259>>, <<127995, 127999>>, <<917505, 917505>>,
     <<917536, 917631>>, <<917760, 917999>>}

\* The ranges of the code points from 128 on that str.isprintable() rejects
\* (general categories Cc, Cf, Cs, Co, Cn, Zl, Zp, Zs).
NonPrintable ==
    {<<128, 160>>, <<173, 173>>, <<888, 889>>, <<896, 899>>, <<907, 907>>,
     <<909, 909>>, <<930, 930>>, <<1328, 1328>>, <<1367, 1368>>,
     <<1419, 1420>>, <<1424, 1424>>, <<1480, 1487>>, <<1515, 1518>>,
     <<1525, 1541>>, <<1564, 1564>>, <<1757, 1757>>, <<1806, 1807>>,
     <<1867, 1868>>, <<1970, 1983>>, <<2043, 2044>>, <<2094, 2095>>,
     <<2111, 2111>>, <<2140, 2141>>, <<2143, 2143>>, <<2155, 2159>>,
     <<2191, 2199>>, <<2274, 2274>>, <<2436, 2436>>, <<2445, 2446>>,
     <<2449, 2450>>, <<2473, 2473>>, <<2481, 2481>>, <<2483, 2485>>,
     <<2490, 2491>>, <<2501, 2502>>, <<2505, 2506>>, <<2511, 2518>>,
     <<2520, 2523>>, <<2526, 2526>>, <<2532, 2533>>, <<2559, 2560>>,
     <<2564, 2564>>, <<2571, 2574>>, <<2577, 2578>>, <<2601, 2601>>,
     <<2609, 2609>>, <<2612, 2612>>, <<2615, 2615>>, <<2618, 2619>>,
     <<2621, 2621>>, <<2627, 2630>>, <<2633, 2634>>, <<2638, 2640>>,
     <<2642, 2648>>, <<2653, 2653>>, <<2655, 2661>>, <<2679, 2688>>,
     <<2692, 2692>>, <<2702, 2702>>, <<2706, 2706>>, <<2729, 2729>>,
     <<2737, 2737>>, <<2740, 2740>>, <<2746, 2747>>, <<2758, 2758>>,
     <<2762, 2762>>, <<2766, 2767>>, <<2769, 2783>>, <<2788, 2789>>,
     <<2802, 2808>>, <<2816, 2816>>, <<2820, 2820>>, <<2829, 2830>>,
     <<2833, 2834>>, <<2857, 2857>>, <<2865, 2865>>, <<2868, 2868>>,
     <<2874, 2875>>, <<2885, 2886>>, <<2889, 2890>>, <<2894, 2900>>,
     <<2904, 2907>>, <<2910, 2910>>, <<2916, 2917>>, <<2936, 2945>>,
     <<2948, 2948>>, <<2955, 2957>>, <<2961, 2961>>, <<2966, 2968>>,
     <<2971, 2971>>, <<2973, 2973>>, <<2976, 2978>>, <<2981, 2983>>,
     <<2987, 2989>>, <<3002, 3005>>, <<3011, 3013>>, <<3017, 3017>>,
     <<3022, 3023>>, <<3025, 3030>>, <<3032, 3045>>, <<3067, 3071>>,
     <<3085, 3085>>, <<3089, 3089>>, <<3113, 3113>>, <<3130, 3131>>,
     <<3141, 3141>>, <<3145, 3145>>, <<3150, 3156>>, <<3159, 3159>>,
     <<3163, 3164>>, <<3166, 3167>>, <<3172, 3173>>, <<3184, 3190>>,
     <<3213, 3213>>, <<3217, 3217>>, <<3241, 3241>>, <<3252, 3252>>,
     <<3258, 3259>>, <<3269, 3269>>, <<3273, 3273>>, <<3278, 3284>>,
     <<3287, 3292>>, <<3295, 3295>>, <<3300, 3301>>, <<3312, 3312>>,
     <<3315, 3327>>, <<3341, 3341>>, <<3345, 3345>>, <<3397, 3397>>,
     <<3401, 3401>>, <<3408, 3411>>, <<3428, 3429>>, <<3456, 3456>>,
     <<3460, 3460>>, <<3479, 3481>>, <<3506, 3506>>, <<3516, 3516>>,
     <<3518, 3519>>, <<3527, 3529>>, <<3531, 3534>>, <<3541, 3541>>,
     <<3543, 3543>>, <<3552, 3557>>, <<3568, 3569>>, <<3573, 3584>>,
     <<3643, 3646>>, <<3676, 3712>>, <<3715, 3715>>, <<3717, 3717>>,
     <<3723, 3723>>, <<3748, 3748>>, <<3750, 3750>>, <<3774, 3775>>,
     <<3781, 3781>>, <<3783, 3783>>, <<3790, 3791>>, <<3802, 3803>>,
     <<3808, 3839>>, <<3912, 3912>>, <<3949, 3952>>, <<3992, 3992>>,
     <<4029, 4029>>, <<4045, 4045>>, <<4059, 4095>>, <<4294, 4294>>,
     <<4296, 4300>>, <<4302, 4303>>, <<4681, 4681>>, <<4686, 4687>>,
     <<4695, 4695>>, <<4697, 4697>>, <<4702, 4703>>, <<4745, 4745>>,
     <<4750, 4751>>, <<4785, 4785>>, <<4790, 4791>>, <<4799, 4799>>,
     <<4801, 4801>>, <<4806, 4807>>, <<4823, 4823>>, <<4881, 4881>>,
     <<4886, 4887>>, <<4955, 4956>>, <<4989, 4991>>, <<5018, 5023>>,
     <<5110, 5111>>, <<5118, 5119>>, <<5760, 5760>>, <<5789, 5791>>,
     <<5881, 5887>>, <<5910, 5918>>, <<5943, 5951>>, <<5972, 5983>>,
     <<5997, 5997>>, <<6001, 6001>>, <<6004, 6015>>, <<6110, 6111>>,
     <<6122, 6127>>, <<6138, 6143>>, <<6158, 6158>>, <<6170, 6175>>,
     <<6265, 6271>>, <<6315, 6319>>, <<6390, 6399>>, <<6431, 6431>>,
     <<6444, 6447>>, <<6460, 6463>>, <<6465, 6467>>, <<6510, 6511>>,
     <<6517, 6527>>, <<6572, 6575>>, <<6602, 6607>>, <<6619, 6621>>,
     <<6684, 6685>>, <<6751, 6751>>, <<6781, 6782>>, <<6794, 6799>>,
     <<6810, 6815>>, <<6830, 6831>>, <<6863, 6911>>, <<6989, 6991>>,
     <<7039, 7039>>, <<7156, 7163>>, <<7224, 7226>>, <<7242, 7244>>,
     <<7305, 7311>>, <<7355, 7356>>, <<7368, 7375>>, <<7419, 7423>>,
     <<7958, 7959>>, <<7966, 7967>>, <<8006, 8007>>, <<8014, 8015>>,
     <<8024, 8024>>, <<8026, 8026>>, <<8028, 8028>>, <<8030, 8030>>,
     <<8062, 8063>>, <<8117, 8117>>, <<8133, 8133>>, <<8148, 8149>>,
     <<8156, 8156>>, <<8176, 8177>>, <<8181, 8181>>, <<8191, 8207>>,
     <<8232, 8239>>, <<8287, 8303>>, <<8306, 8307>>, <<8335, 8335>>,
     <<8349, 8351>>, <<8385, 8399>>, <<8433, 8447>>, <<8588, 8591>>,
     <<9255, 9279>>, <<9291, 9311>>, <<11124, 11125>>, <<11158, 11158>>,
     <<11508, 11512>>, <<11558, 11558>>, <<11560, 11564>>, <<11566, 11567>>,
     <<11624, 11630>>, <<11633, 11646>>, <<11671, 11679>>, <<11687, 11687>>,
     <<11695, 11695>>, <<11703, 11703>>, <<11711, 11711>>, <<11719, 11719>>,
     <<11727, 11727>>, <<11735, 11735>>, <<11743, 11743>>, <<11870, 11903>>,
     <<11930, 11930>>, <<12020, 12031>>, <<12246, 12271>>, <<12284, 12288>>,
     <<12352, 12352>>, <<12439, 12440>>, <<12544, 12548>>, <<12592, 12592>>,
     <<12687, 12687>>, <<12772, 12783>>, <<12831, 12831>>, <<42125, 42127>>,
     <<42183, 42191>>, <<42540, 42559>>, <<42744, 42751>>, <<42955, 42959>>,
     <<42962, 42962>>, <<42964, 42964>>, <<42970, 42993>>, <<43053, 43055>>,
     <<43066, 43071>>, <<43128, 43135>>, <<43206, 43213>>, <<43226, 43231>>,
     <<43348, 43358>>, <<43389, 43391>>, <<43470, 43470>>, <<43482, 43485>>,
     <<43519, 43519>>, <<43575, 43583>>, <<43598, 43599>>, <<43610, 43611>>,
     <<43715, 43738>>, <<43767, 43776>>, <<43783, 43784>>, <<43791, 43792>>,
     <<43799, 43807>>, <<43815, 43815>>, <<43823, 43823>>, <<43884, 43887>>,
     <<44014, 44015>>, <<44026, 44031>>, <<55204, 55215>>, <<55239, 55242>>,
     <<55292, 63743>>, <<64110, 64111>>, <<64218, 64255>>, <<64263, 64274>>,
     <<64280, 64284>>, <<64311, 64311>>, <<64317, 64317>>, <<64319, 64319>>,
     <<64322, 64322>>, <<64325, 64325>>, <<64451, 64466>>, <<64912, 64913>>,
     <<64968, 64974>>, <<64976, 65007>>, <<65050, 65055>>, <<65107, 65107>>,
     <<65127, 65127>>, <<65132, 65135>>, <<65141, 65141>>, <<65277, 65280>>,
     <<65471, 65473>>, <<65480, 65481>>, <<65488, 65489>>, <<65496, 65497>>,
     <<65501, 65503>>, <<65511, 65511>>, <<65519, 65531>>, <<65534, 65535>>,
     <<65548, 65548>>, <<65575, 65575>>, <<65595, 65595>>, <<65598, 65598>>,
     <<65614, 65615>>, <<65630, 65663>>, <<65787, 65791>>, <<65795, 65798>>,
     <<65844, 65846>>, <<65935, 65935>>, <<65949, 65951>>, <<65953, 65999>>,
     <<66046, 66175>>, <<66205, 66207>>, <<66257, 66271>>, <<66300, 66303>>,
     <<66340, 66348>>, <<66379, 66383>>, <<66427, 66431>>, <<66462, 66462>>,
     <<66500, 66503>>, <<66518, 66559>>, <<66718, 66719>>, <<66730, 66735>>,
     <<66772, 66775>>, <<66812, 66815>>, <<66856, 66863>>, <<66916, 66926>>,
     <<66939, 66939>>, <<66955, 66955>>, <<66963, 66963>>, <<66966, 66966>>,
     <<66978, 66978>>, <<66994, 66994>>, <<67002, 67002>>, <<67005, 67071>>,
     <<67383, 67391>>, <<67414, 67423>>, <<67432, 67455>>, <<67462, 67462>>,
     <<67505, 67505>>, <<67515, 67583>>, <<67590, 67591>>, <<67593, 67593>>,
     <<67638, 67638>>, <<67641, 67643>>, <<67645, 67646>>, <<67670, 67670>>,
     <<67743, 67750>>, <<67760, 67807>>, <<67827, 67827>>, <<67830, 67834>>,
     <<67868, 67870>>, <<67898, 67902>>, <<67904, 67967>>, <<68024, 68027>>,
     <<68048, 68049>>, <<68100, 68100>>, <<68103, 68107>>, <<68116, 68116>>,
     <<68120, 68120>>, <<68150, 68151>>, <<68155, 68158>>, <<68169, 68175>>,
     <<68185, 68191>>, <<68256, 68287>>, <<68327, 68330>>, <<68343, 68351>>,
     <<68406, 68408>>, <<68438, 68439>>, <<68467, 68471>>, <<68498, 68504>>,
     <<68509, 68520>>, <<68528, 68607>>, <<68681, 68735>>, <<68787, 68799>>,
     <<68851, 68857>>, <<68904, 68911>>, <<68922, 69215>>, <<69247, 69247>>,
     <<69290, 69290>>, <<69294, 69295>>, <<69298, 69375>>, <<69416, 69423>>,
     <<69466, 69487>>, <<69514, 69551>>, <<69580, 69599>>, <<69623, 69631>>,
     <<69710, 69713>>, <<69750, 69758>>, <<69821, 69821>>, <<69827, 69839>>,
     <<69865, 69871>>, <<69882, 69887>>, <<69941, 69941>>, <<69960, 69967>>,
     <<70007, 70015>>, <<70112, 70112>>, <<70133, 70143>>, <<70162, 70162>>,
     <<70207, 70271>>, <<70279, 70279>>, <<70281, 70281>>, <<70286, 70286>>,
     <<70302, 70302>>, <<70314, 70319>>, <<70379, 70383>>, <<70394, 70399>>,
     <<70404, 70404>>, <<70413, 70414>>, <<70417, 70418>>, <<70441, 70441>>,
     <<70449, 70449>>, <<70452, 70452>>, <<70458, 70458>>, <<70469, 70470>>,
     <<70473, 70474>>, <<70478, 70479>>, <<70481, 70486>>, <<70488, 70492>>,
     <<70500, 70501>>, <<70509, 70511>>, <<70517, 70655>>, <<70748, 70748>>,
     <<70754, 70783>>, <<70856, 70863>>, <<70874, 71039>>, <<71094, 71095>>,
     <<71134, 71167>>, <<71237, 71247>>, <<71258, 71263>>, <<71277, 71295>>,
     <<71354, 71359>>, <<71370, 71423>>, <<71451, 71452>>, <<71468, 71471>>,
     <<71495, 71679>>, <<71740, 71839>>, <<71923, 71934>>, <<71943, 71944>>,
     <<71946, 71947>>, <<71956, 71956>>, <<71959, 71959>>, <<71990, 71990>>,
     <<71993, 71994>>, <<72007, 72015>>, <<72026, 72095>>, <<72104, 72105>>,
     <<72152, 72153>>, <<72165, 72191>>, <<72264, 72271>>, <<72355, 72367>>,
     <<72441, 72703>>, <<72713, 72713>>, <<72759, 72759>>, <<72774, 72783>>,
     <<72813, 72815>>, <<72848, 72849>>, <<72872, 72872>>, <<72887, 72959>>,
     <<72967, 72967>>, <<72970, 72970>>, <<73015, 73017>>, <<73019, 73019>>,
     <<73022, 73022>>, <<73032, 73039>>, <<73050, 73055>>, <<73062, 73062>>,
     <<73065, 73065>>, <<73103, 73103>>, <<73106, 73106>>, <<73113, 73119>>,
     <<73130, 73439>>, <<73465, 73647>>, <<73649, 73663>>, <<73714, 73726>>,
     <<74650, 74751>>, <<74863, 74863>>, <<74869, 74879>>, <<75076, 77711>>,
     <<77811, 77823>>, <<78895, 82943>>, <<83527, 92159>>, <<92729, 92735>>,
     <<92767, 92767>>, <<92778, 92781>>, <<92863, 92863>>, <<92874, 92879>>,
     <<92910, 92911>>, <<92918, 92927>>, <<92998, 93007>>, <<93018, 93018>>,
     <<93026, 93026>>, <<93048, 93052>>, <<93072, 93759>>, <<93851, 93951>>,
     <<94027, 94030>>, <<94088, 94094>>, <<94112, 94175>>, <<94181, 94191>>,
     <<94194, 94207>>, <<100344, 100351>>, <<101590, 101631>>,
     <<101641, 110575>>, <<110580, 110580>>, <<110588, 110588>>,
     <<110591, 110591>>, <<110883, 110927>>, <<110931, 110947>>,
     <<110952, 110959>>, <<111356, 113663>>, <<113771, 113775>>,
     <<113789, 113791>>, <<113801, 113807>>, <<113818, 113819>>,
     <<113824, 118527>>, <<118574, 118575>>, <<118599, 118607>>,
     <<118724, 118783>>, <<119030, 119039>>, <<119079, 119080>>,
     <<119155, 119162>>, <<119275, 119295>>, <<119366, 119519>>,
     <<119540, 119551>>, <<119639, 119647>>, <<119673, 119807>>,
     <<119893, 119893>>, <<119965, 119965>>, <<119968, 119969>>,
     <<119971, 119972>>, <<119975, 119976>>, <<119981, 119981>>,
     <<119994, 119994>>, <<119996, 119996>>, <<120004, 120004>>,
     <<120070, 120070>>, <<120075, 120076>>, <<120085, 120085>>,
     <<120093, 120093>>, <<120122, 120122>>, <<120127, 120127>>,
     <<120133, 120133>>, <<120135, 120137>>, <<120145, 120145>>,
     <<120486, 120487>>, <<120780, 120781>>, <<121484, 121498>>,
     <<121504, 121504>>, <<121520, 122623>>, <<122655, 122879>>,
     <<122887, 122887>>, <<122905, 122906>>, <<122914, 122914>>,
     <<122917, 122917>>, <<122923, 123135>>, <<123181, 123183>>,
     <<123198, 123199>>, <<123210, 123213>>, <<123216, 123535>>,
     <<123567, 123583>>, <<123642, 123646>>, <<123648, 124895>>,
     <<124903, 124903>>, <<124908, 124908>>, <<124911, 124911>>,
     <<124927, 124927>>, <<125125, 125126>>, <<125143, 125183>>,
     <<125260, 125263>>, <<125274, 125277>>, <<125280, 126064>>,
     <<126133, 126208>>, <<126270, 126463>>, <<126468, 126468>>,
     <<126496, 126496>>, <<126499, 126499>>, <<126501, 126502>>,
     <<126504, 126504>>, <<126515, 126515>>, <<126520, 126520>>,
     <<126522, 126522>>, <<126524, 126529>>, <<126531, 126534>>,
     <<126536, 126536>>, <<126538, 126538>>, <<126540, 126540>>,
     <<126544, 126544>>, <<126547, 126547>>, <<126549, 126550>>,
     <<126552, 126552>>, <<126554, 126554>>, <<126556, 126556>>,
     <<126558, 126558>>, <<126560, 126560>>, <<126563, 126563>>,
     <<126565, 126566>>, <<126571, 126571>>, <<126579, 126579>>,
     <<126584, 126584>>, <<126589, 126589>>, <<126591, 126591>>,
     <<126602, 126602>>, <<126620, 126624>>, <<126628, 126628>>,
     <<126634, 126634>>, <<126652, 126703>>, <<126706, 126975>>,
     <<127020, 127023>>, <<127124, 127135>>, <<127151, 127152>>,
     <<127168, 127168>>, <<127184, 127184>>, <<127222, 127231>>,
     <<127406, 127461>>, <<127491, 127503>>, <<127548, 127551>>,
     <<127561, 127567>>, <<127570, 127583>>, <<127590, 127743>>,
     <<128728, 128732>>, <<128749, 128751>>, <<128765, 128767>>,
     <<128884, 128895>>, <<128985, 128991>>, <<129004, 129007>>,
     <<129009, 129023>>, <<129036, 129039>>, <<129096, 129103>>,
     <<129114, 129119>>, <<129160, 129167>>, <<129198, 129199>>,
     <<129202, 129279>>, <<129620, 129631>>, <<129646, 129647>>,
     <<129653, 129655>>, <<129661, 129663>>, <<129671, 129679>>,
     <<129709, 129711>>, <<129723, 129727>>, <<129734, 129743>>,
     <<129754, 129759>>, <<129768, 129775>>, <<129783, 129791>>,
     <<129939, 129939>>, <<129995, 130031>>, <<130042, 131071>>,
     <<173792, 173823>>, <<177977, 177983>>, <<178206, 178207>>,
     <<183970, 183983>>, <<191457, 194559>>, <<195102, 196607>>,
     <<201547, 917759>>, <<918000, 1114111>>}

(***************************************************************************)
(* str.lower()                                                             *)
(***************************************************************************)
InRanges(c, ranges) == \E r \in ranges : r[1] <= c /\ c <= r[2]

InRun(c, r) == r[1] <= c /\ c <= r[2] /\ (c - r[1]) % r[3] = 0

\* The lower case of a character that maps to one character.
LowerChar(c) ==
    IF c < 128 THEN (IF 65 <= c /\ c <= 90 THEN c + 32 ELSE c)
    ELSE IF \E r \in LowerRuns : InRun(c, r)
         THEN c + (CHOOSE r \in LowerRuns : InRun(c, r))[4]
         ELSE c

\* The capital sigma at s[i] ends a word: a cased letter comes before it,
\* over case-ignorable characters only, and none comes after it in that way.
FinalSigma(s, i) ==
    /\ \E j \in 1..(i - 1) :
          /\ InRanges(s[j], Cased)
          /\ \A k \in (j + 1)..(i - 1) : InRanges(s[k], CaseIgnorable)
    /\ ~\E j \in (i + 1)..Len(s) :
          /\ InRanges(s[j], Cased)
          /\ \A k \in (i + 1)..(j - 1) : InRanges(s[k], CaseIgnorable)

\* The lower case of s[i]: two characters for the capital I with a dot
\* above (304), the final or the medial small sigma for the capital (931).
LowerAt(s, i) ==
    IF s[i] = 304 THEN <<105, 775>>
    ELSE IF s[i] = 931 THEN <<IF FinalSigma(s, i) THEN 962 ELSE 963>>
    ELSE <<LowerChar(s[i])>>

lower(s) == Fold(LAMBDA out, i : out \o LowerAt(s, i), <<>>, 1, Len(s))

(***************************************************************************)
(* Python values held in a row: a str, None, or a list of str.             *)
(***************************************************************************)
StrVal(s) == [t |-> "str", s |-> s, l |-> <<>>]
NoneVal == [t |-> "none", s |-> <<>>, l |-> <<>>]
ListVal(l) == [t |-> "list", s |-> <<>>, l |-> l]

\* The n lower-case hexadecimal digits of c.
Hex(c, n) ==
    [i \in 1..n |->
        IF (c \div 16^(n - i)) % 16 < 10 THEN 48 + ((c \div 16^(n - i)) % 16)
        ELSE 87 + ((c \div 16^(n - i)) % 16)]

\* str.isprintable() of one character.
IsPrintable(c) ==
    IF c < 128 THEN 32 <= c /\ c < 127 ELSE ~InRanges(c, NonPrintable)

\* The character c inside a repr() delimited by the character quote.
ReprChar(c, quote) ==
    IF c = quote \/ c = 92 THEN <<92, c>>
    ELSE IF c = 9 THEN <<92, 116>>
    ELSE IF c = 10 THEN <<92, 110>>
    ELSE IF c = 13 THEN <<92, 114>>
    ELSE IF IsPrintable(c) THEN <<c>>
    ELSE IF c < 256 THEN <<92, 120>> \o Hex(c, 2)
    ELSE IF c < 65536 THEN <<92, 117>> \o Hex(c, 4)
    ELSE <<92, 85>> \o Hex(c, 8)

\* The delimiter of repr(s): the double quote when s has a single quote and
\* no double quote, else the single quote.
ReprQuote(s) ==
    IF (\E i \in 1..Len(s) : s[i] = 39) /\ ~(\E i \in 1..Len(s) : s[i] = 34)
    THEN 34 ELSE 39

\* repr() of a str.
repr(s) ==
    <<ReprQuote(s)>>
    \o Fold(LAMBDA out, i : out \o ReprChar(s[i], ReprQuote(s)), <<>>, 1, Len(s))
    \o <<ReprQuote(s)>>

\* The items of repr() of a list of str from the i-th on: 'x', 'y'.
RECURSIVE ReprItems(_, _)
ReprItems(l, i) ==
    IF i > Len(l) THEN <<>>
    ELSE (IF i > 1 THEN <<44, 32>> ELSE <<>>) \o repr(l[i]) \o ReprItems(l, i + 1)

\* str(v)
str(v) ==
    CASE v.t = "str" -> v.s
      [] v.t = "none" -> <<78, 111, 110, 101>>
      [] v.t = "list" -> <<91>> \o ReprItems(v.l, 1) \o <<93>>

(***************************************************************************)
(* A dict is a sequence of [k, v] entries in insertion order, keys unique. *)
(***************************************************************************)
HasKey(d, k) == \E i \in 1..Len(d) : d[i].k = k

KeyIndex(d, k) == CHOOSE i \in 1..Len(d) : d[i].k = k

\* d.get(k): None when the key is absent.
DictGet(d, k) == IF HasKey(d, k) THEN d[KeyIndex(d, k)].v ELSE NoneVal

\* d[k] = v: an existing key keeps its position.
DictSet(d, k, v) ==
    IF HasKey(d, k)
    THEN [d EXCEPT ![KeyIndex(d, k)] = [k |-> k, v |-> v]]
    ELSE Append(d, [k |-> k, v |-> v])

Keys(d) == {d[i].k : i \in 1..Len(d)}

(***************************************************************************)
(* content.decode("utf-8", errors="ignore"): bytes to code points.  A byte *)
(* that leads a well-formed sequence gives the character of the sequence;  *)
(* every other byte is dropped.  A lead byte is no continuation byte, so   *)
(* the decoder, which resumes at the byte that broke a sequence, tries     *)
(* every lead byte as the start of one.                                    *)
(***************************************************************************)
\* The length of the sequence that the byte b leads, 0 when it leads none.
Width(b) ==
    IF b < 128 THEN 1
    ELSE IF 194 <= b /\ b <= 223 THEN 2
    ELSE IF 224 <= b /\ b <= 239 THEN 3
    ELSE IF 240 <= b /\ b <= 244 THEN 4
    ELSE 0

\* c may follow the lead byte b: no overlong form, no surrogate, nothing
\* above U+10FFFF.
SecondOk(b, c) ==
    /\ (IF b = 224 THEN 160 ELSE IF b = 240 THEN 144 ELSE 128) <= c
    /\ c <= (IF b = 237 THEN 159 ELSE IF b = 244 THEN 143 ELSE 191)

WellFormedAt(content, i) ==
    \E n \in {Width(content[i])} :
        /\ n > 0
        /\ i + n - 1 <= Len(content)
        /\ n >= 2 => SecondOk(content[i], content[i + 1])
        /\ \A k \in 2..(n - 1) : content[i + k] \in 128..191

CodePointAt(content, i) ==
    LET b == content[i]
        n == Width(b)
        c(k) == content[i + k] - 128
    IN  IF n = 1 THEN b
        ELSE IF n = 2 THEN (b - 192) * 64 + c(1)
        ELSE IF n = 3 THEN ((b - 224) * 64 + c(1)) * 64 + c(2)
        ELSE (((b - 240) * 64 + c(1)) * 64 + c(2)) * 64 + c(3)

RECURSIVE DecodeRange(_, _, _)
DecodeRange(content, lo, hi) ==
    IF lo > hi THEN <<>>
    ELSE IF lo = hi
    THEN IF WellFormedAt(content, lo) THEN <<CodePointAt(content, lo)>> ELSE <<>>
    ELSE DecodeRange(content, lo, (lo + hi) \div 2)
         \o DecodeRange(content, (lo + hi) \div 2 + 1, hi)

decode(content) == DecodeRange(content, 1, Len(content))

(***************************************************************************)
(* csv.reader over io.StringIO(text), excel dialect: delimiter ",", quote  *)
(* character '"' doubled inside a quoted field, no escape character, not   *)
(* strict.  The stream hands the parser its lines, each ended by "\n" or   *)
(* by the end of the text; the parser takes the characters of a line one   *)
(* by one and then the mark EOL.                                           *)
(***************************************************************************)
field_size_limit == 131072

EOL == -2
Delimiter == 44
QuoteChar == 34
IsNewline(c) == c = 10 \/ c = 13

\* The parser: its state, the fields of the record being read, the field
\* being read as the ranges of the text it is made of, and the records
\* returned so far.
Parser ==
    [state |-> "START_RECORD", fields |-> <<>>, field |-> <<>>, field_len |-> 0,
     records |-> <<>>, error |-> FALSE]

\* parse_add_char: the character at p joins the field, unless the field is
\* at its limit.
parse_add_char(st, p) ==
    IF st.field_len >= field_size_limit THEN [st EXCEPT !.error = TRUE]
    ELSE LET n == Len(st.field)
         IN  [st EXCEPT !.field_len = @ + 1,
                        !.field = IF n > 0 /\ st.field[n][2] = p - 1
                                  THEN [st.field EXCEPT ![n][2] = p]
                                  ELSE Append(st.field, <<p, p>>)]

RECURSIVE FieldText(_, _, _)
FieldText(text, field, i) ==
    IF i > Len(field) THEN <<>>
    ELSE SubStr(text, field[i][1], field[i][2]) \o FieldText(text, field, i + 1)

\* parse_save_field: the field joins the record.
parse_save_field(text, st) ==
    [st EXCEPT !.fields = Append(@, FieldText(text, st.field, 1)),
               !.field = <<>>, !.field_len = 0]

EndOfField(text, st, c) ==
    [parse_save_field(text, st) EXCEPT
        !.state = IF c = EOL THEN "START_RECORD" ELSE "EAT_CRNL"]

\* parse_process_char for the character c at p, or for c = EOL.
parse_process_char(text, st, p, c) ==
    IF st.state = "START_RECORD" /\ c = EOL THEN st
    ELSE IF st.state = "START_RECORD" /\ IsNewline(c)
    THEN [st EXCEPT !.state = "EAT_CRNL"]
    ELSE IF st.state \in {"START_RECORD", "START_FIELD"}
    THEN IF IsNewline(c) \/ c = EOL THEN EndOfField(text, st, c)
         ELSE IF c = QuoteChar THEN [st EXCEPT !.state = "IN_QUOTED_FIELD"]
         ELSE IF c = Delimiter
         THEN [parse_save_field(text, st) EXCEPT !.state = "START_FIELD"]
         ELSE [parse_add_char(st, p) EXCEPT !.state = "IN_FIELD"]
    ELSE IF st.state = "IN_FIELD"
    THEN IF IsNewline(c) \/ c = EOL THEN EndOfField(text, st, c)
         ELSE IF c = Delimiter
         THEN [parse_save_field(text, st) EXCEPT !.state = "START_FIELD"]
         ELSE parse_add_char(st, p)
    ELSE IF st.state = "IN_QUOTED_FIELD"
    THEN IF c = EOL THEN st
         ELSE IF c = QuoteChar THEN [st EXCEPT !.state = "QUOTE_IN_QUOTED_FIELD"]
         ELSE parse_add_char(st, p)
    ELSE IF st.state = "QUOTE_IN_QUOTED_FIELD"
    THEN IF c = QuoteChar
         THEN [parse_add_char(st, p) EXCEPT !.state = "IN_QUOTED_FIELD"]
         ELSE IF c = Delimiter
         THEN [parse_save_field(text, st) EXCEPT !.state = "START_FIELD"]
         ELSE IF IsNewline(c) \/ c = EOL THEN EndOfField(text, st, c)
         ELSE [parse_add_char(st, p) EXCEPT !.state = "IN_FIELD"]
    ELSE \* EAT_CRNL
         IF IsNewline(c) THEN st
         ELSE IF c = EOL THEN [st EXCEPT !.state = "START_RECORD"]
         ELSE [st EXCEPT !.error = TRUE]

\* A record is returned when the parser is back at the start of a record.
ReturnRecord(st) ==
    IF ~st.error /\ st.state = "START_RECORD"
    THEN [st EXCEPT !.records = Append(@, st.fields), !.fields = <<>>]
    ELSE st

\* After the last character of a line the parser takes the mark EOL.
EndOfLine(text, st, p) ==
    IF ~st.error /\ (text[p] = 10 \/ p = Len(text))
    THEN ReturnRecord(parse_process_char(text, st, p, EOL))
    ELSE st

\* One character of the text; after an error the reader reads no further.
ReadChar(text, st, p) ==
    IF st.error THEN st
    ELSE EndOfLine(text, parse_process_char(text, st, p, text[p]), p)

\* The end of the text inside a quoted field: the record read so far is
\* returned.
EndOfText(text, st) ==
    IF ~st.error /\ (st.field_len # 0 \/ st.state = "IN_QUOTED_FIELD")
    THEN [records |-> Append(st.records, parse_save_field(text, st).fields),
          error |-> FALSE]
    ELSE [records |-> st.records, error |-> st.error]

\* The records the reader returns, and whether it then raises csv.Error.
csv_reader(text) ==
    EndOfText(text, Fold(LAMBDA st, p : ReadChar(text, st, p), Parser, 1, Len(text)))

(***************************************************************************)
(* csv.DictReader over the records of the reader.                          *)
(***************************************************************************)
\* The key None, under which DictReader files the fields beyond the header:
\* no str, so no sequence of code points.
restkey == <<-1>>

RECURSIVE ZipFrom(_, _, _, _)
ZipFrom(d, fieldnames, row, i) ==
    IF i > Min(Len(fieldnames), Len(row)) THEN d
    ELSE ZipFrom(DictSet(d, fieldnames[i], StrVal(row[i])), fieldnames, row, i + 1)

RECURSIVE FillFrom(_, _, _)
FillFrom(d, fieldnames, i) ==
    IF i > Len(fieldnames) THEN d
    ELSE FillFrom(DictSet(d, fieldnames[i], NoneVal), fieldnames, i + 1)

\* DictReader.__next__ for one non-empty record.
MakeRow(fieldnames, row) ==
    LET d == ZipFrom(<<>>, fieldnames, row, 1)
        lf == Len(fieldnames)
        lr == Len(row)
    IN  IF lf < lr THEN DictSet(d, restkey, ListVal(SubStr(row, lf + 1, lr)))
        ELSE IF lf > lr THEN FillFrom(d, fieldnames, lr + 1)
        ELSE d

\* The rows the reader yields: the first record is the header, empty
\* records are skipped.
DictReader(records) ==
    LET data == SelectSeq(SubSeq(records, 2, Len(records)), LAMBDA l : l # <<>>)
    IN  [i \in 1..Len(data) |-> MakeRow(records[1], data[i])]

(***************************************************************************)
(* upload_dataset: the pass over the rows.                                 *)
(***************************************************************************)
max_preview == 100

\* The tally of a new column, in the order the code writes its keys.
TypeOrder == <<"int", "float", "string", "null">>
ZeroCounts == [t \in {"int", "float", "string", "null"} |-> 0]

\* for k, v in row.items(): tally the type of v under k.
RECURSIVE TallyRow(_, _, _)
TallyRow(type_counts, row, i) ==
    IF i > Len(row) THEN type_counts
    ELSE LET k == row[i].k
             v == row[i].v
             t == infer_type(IF v.t # "none" THEN str(v) ELSE <<>>)
             tc == IF HasKey(type_counts, k) THEN type_counts
                   ELSE Append(type_counts, [k |-> k, v |-> ZeroCounts])
             j == KeyIndex(tc, k)
         IN  TallyRow([tc EXCEPT ![j].v[t] = @ + 1], row, i + 1)

\* Variants of the turn: room tested with <=; the tally made only while the
\* preview has room.
Step_OffByOne(st, row) ==
    [total |-> st.total + 1,
     rows |-> IF Len(st.rows) <= max_preview THEN Append(st.rows, row) ELSE st.rows,
     type_counts |-> TallyRow(st.type_counts, row, 1)]

Step_TallyInPreview(st, row) ==
    [total |-> st.total + 1,
     rows |-> IF Len(st.rows) < max_preview THEN Append(st.rows, row) ELSE st.rows,
     type_counts |-> IF Len(st.rows) < max_preview
                     THEN TallyRow(st.type_counts, row, 1) ELSE st.type_counts]

\* One turn of  for row in reader:  count the row, keep it while the preview
\* has room, tally it.
Step(st, row) ==
    [total |-> st.total + 1,
     rows |-> IF Len(st.rows) < max_preview THEN Append(st.rows, row) ELSE st.rows,
     type_counts |-> TallyRow(st.type_counts, row, 1)]

\* The turns for reader[lo..hi], in order, from the state st: those of the
\* first half of the range, then those of the second half from the state the
\* first half leaves.
RECURSIVE Pass(_, _, _, _)
Pass(st, reader, lo, hi) ==
    IF lo > hi THEN st
    ELSE IF lo = hi THEN Step(st, reader[lo])
    ELSE CHOOSE last \in
             {Pass(half, reader, (lo + hi) \div 2 + 1, hi) :
                 half \in {Pass(st, reader, lo, (lo + hi) \div 2)}} : TRUE

\* max(..., key=count) over the non-null types in tally order: the first
\* type whose count no later one exceeds.
RECURSIVE MaxFrom(_, _, _)
MaxFrom(counts, best, i) ==
    IF i > Len(TypeOrder) THEN best
    ELSE LET t == TypeOrder[i]
         IN  IF t = "null" THEN MaxFrom(counts, best, i + 1)
             ELSE IF best = "" \/ counts[t] > counts[best]
                  THEN MaxFrom(counts, t, i + 1)
                  ELSE MaxFrom(counts, best, i + 1)

\* Variants of the choice: null in contention; the last of equal counts.
RECURSIVE MaxWithNullFrom(_, _, _)
MaxWithNullFrom(counts, best, i) ==
    IF i > Len(TypeOrder) THEN best
    ELSE LET t == TypeOrder[i]
         IN  IF best = "" \/ counts[t] > counts[best]
             THEN MaxWithNullFrom(counts, t, i + 1)
             ELSE MaxWithNullFrom(counts, best, i + 1)

Best_WithNull(counts) == MaxWithNullFrom(counts, "", 1)

RECURSIVE MaxLastFrom(_, _, _)
MaxLastFrom(counts, best, i) ==
    IF i > Len(TypeOrder) THEN best
    ELSE LET t == TypeOrder[i]
         IN  IF t = "null" THEN MaxLastFrom(counts, best, i + 1)
             ELSE IF best = "" \/ counts[t] >= counts[best]
                  THEN MaxLastFrom(counts, t, i + 1)
                  ELSE MaxLastFrom(counts, best, i + 1)

Best_LastMax(counts) == MaxLastFrom(counts, "", 1)

Best(counts) == MaxFrom(counts, "", 1)

columns_meta(type_counts) ==
    [i \in 1..Len(type_counts) |->
        [name |-> type_counts[i].k, type |-> Best(type_counts[i].v)]]

\* if total == 0: the upload is refused.
Rejected(st) == st.total = 0

\* The loop over the reader: the state after the rows of the records the
\* reader returns, and whether the reader then raises csv.Error.
ExtractEnd(rd, reader) ==
    [error |-> rd.error]
    @@ Pass([total |-> 0, rows |-> <<>>, type_counts |-> <<>>],
            reader, 1, Len(reader))

Extract(text) ==
    \* csv.DictReader(text_stream) and  for row in reader
    LET rd == csv_reader(text)
    IN  ExtractEnd(rd, DictReader(rd.records))
(***************************************************************************)
(* Natural numbers of any size, for the arithmetic of a double: the        *)
(* sequence of the number's digits in base 2^15, lowest first, without     *)
(* leading zero digits; <<>> is zero.                                      *)
(***************************************************************************)
Base == 32768

Norm(a) == SubStr(a, 1, LastOutside(a, Len(a), {0}))

Limb(a, i) == IF i <= Len(a) THEN a[i] ELSE 0

\* a * s + c for a factor s < 2^16 and c < 2^16.
MulStep(a, s, st, i) ==
    [out |-> Append(st.out, (a[i] * s + st.carry) % Base),
     carry |-> (a[i] * s + st.carry) \div Base]

MulEnd(st) == Norm(st.out \o <<st.carry % Base, st.carry \div Base>>)

MulSmall(a, s, c) ==
    MulEnd(Fold(LAMBDA st, i : MulStep(a, s, st, i),
                [out |-> <<>>, carry |-> c], 1, Len(a)))

\* The quotient q (its digits, not normalised) and the remainder r of a by
\* a divisor s < 2^16, from the highest digit down.
DivStep(a, s, st, i) ==
    [q |-> <<(st.r * Base + a[i]) \div s>> \o st.q,
     r |-> (st.r * Base + a[i]) % s]

DivSmall(a, s) ==
    Fold(LAMBDA st, j : DivStep(a, s, st, Len(a) - j + 1),
         [q |-> <<>>, r |-> 0], 1, Len(a))

\* a + sign * b for sign 1 or -1 (a >= b when sign is -1).
AddStep(a, b, sign, st, i) ==
    [out |-> Append(st.out, (Limb(a, i) + sign * Limb(b, i) + st.carry) % Base),
     carry |-> IF Limb(a, i) + sign * Limb(b, i) + st.carry < 0 THEN -1
               ELSE (Limb(a, i) + sign * Limb(b, i) + st.carry) \div Base]

AddEnd(st) == Norm(IF st.carry > 0 THEN Append(st.out, st.carry) ELSE st.out)

AddBig(a, b, sign) ==
    AddEnd(Fold(LAMBDA st, i : AddStep(a, b, sign, st, i),
                [out |-> <<>>, carry |-> 0], 1, Max(Len(a), Len(b))))

\* -1, 0 or 1 as a is less than, equal to or greater than b.
CmpBig(a, b) ==
    IF a = b THEN 0
    ELSE IF Len(a) # Len(b) THEN (IF Len(a) < Len(b) THEN -1 ELSE 1)
    ELSE IF a[LastOutside([i \in 1..Len(a) |-> a[i] - b[i]], Len(a), {0})]
            < b[LastOutside([i \in 1..Len(a) |-> a[i] - b[i]], Len(a), {0})]
         THEN -1 ELSE 1

\* The number of binary digits of a.
BitLen(a) ==
    IF a = <<>> THEN 0
    ELSE 15 * (Len(a) - 1)
         + CHOOSE n \in 1..15 : 2^(n - 1) <= a[Len(a)] /\ a[Len(a)] < 2^n

ShiftLeft(a, n) ==
    IF a = <<>> THEN <<>>
    ELSE [i \in 1..(n \div 15) |-> 0] \o MulSmall(a, 2^(n % 15), 0)

ShiftRight(a, n) == Norm(DivSmall(SubStr(a, n \div 15 + 1, Len(a)), 2^(n % 15)).q)

\* The binary digit of weight 2^n of a.
BitAt(a, n) ==
    IF n < 0 \/ n \div 15 + 1 > Len(a) THEN 0
    ELSE (a[n \div 15 + 1] \div 2^(n % 15)) % 2

\* Some binary digit of a of weight below 2^n is set.
AnyBelow(a, n) ==
    /\ n > 0
    /\ \/ \E i \in 1..Min(Len(a), n \div 15) : a[i] # 0
       \/ n \div 15 + 1 <= Len(a) /\ a[n \div 15 + 1] % 2^(n % 15) # 0

\* a * 5^k and the quotient and remainder flag of a by 5^k, six powers at a
\* time (5^6 = 15625).
Pow5(n) == 5^n

MulPow5(a, k) ==
    MulSmall(Fold(LAMBDA acc, i : MulSmall(acc, Pow5(6), 0), a, 1, k \div 6),
             Pow5(k % 6), 0)

DivPow5End(st, d) == [q |-> Norm(d.q), sticky |-> st.sticky \/ d.r # 0]

DivPow5Step(st, s) == DivPow5End(st, DivSmall(st.q, s))

DivPow5(a, k) ==
    DivPow5Step(Fold(LAMBDA st, i : DivPow5Step(st, Pow5(6)),
                     [q |-> a, sticky |-> FALSE], 1, k \div 6),
                Pow5(k % 6))

(***************************************************************************)
(* A Python float: an IEEE 754 binary64 value.  A finite one is            *)
(* [c |-> "fin", neg, m, e] of value (-1)^neg * m * 2^e with m a natural   *)
(* number below 2^53: of exactly 53 binary digits and -1074 <= e <= 971    *)
(* (normal), or of fewer and e = -1074 (subnormal), or zero with e = 0.    *)
(***************************************************************************)
Zero(neg) == [c |-> "fin", neg |-> neg, m |-> <<>>, e |-> 0]
Inf(neg) == [c |-> "inf", neg |-> neg, m |-> <<>>, e |-> 0]
NaN == [c |-> "nan", neg |-> FALSE, m |-> <<>>, e |-> 0]

\* The double of m * 2^e for m of 53 or 54 binary digits at most (54 after a
\* rounding that carried into a new digit): infinite beyond the range.
Pack(neg, m, e) ==
    IF m = <<>> THEN Zero(neg)
    ELSE IF e + Max(BitLen(m) - 53, 0) > 971 THEN Inf(neg)
    ELSE [c |-> "fin", neg |-> neg,
          m |-> ShiftRight(m, Max(BitLen(m) - 53, 0)),
          e |-> e + Max(BitLen(m) - 53, 0)]

\* q * 2^e, plus a fraction of the last place of q when sticky, rounded to
\* the nearest double, ties to the even one; r is the number of low binary
\* digits of q that the double cannot hold.
RoundAt(neg, q, sticky, e, r) ==
    IF r <= 0 THEN Pack(neg, ShiftLeft(q, 0 - r), e + r)
    ELSE IF BitAt(q, r - 1) = 1
            /\ (sticky \/ AnyBelow(q, r - 1) \/ BitAt(q, r) = 1)
         THEN Pack(neg, AddBig(ShiftRight(q, r), <<1>>, 1), e + r)
         ELSE Pack(neg, ShiftRight(q, r), e + r)

Round(neg, q, sticky, e) ==
    RoundAt(neg, q, sticky, e, Max(BitLen(q) - 53, (0 - 1074) - e))

\* The natural number written by the decimal digits ds (their values).
FromDigits(ds) == Fold(LAMBDA acc, i : MulSmall(acc, 10, ds[i]), <<>>, 1, Len(ds))

\* The exponent written by the digits ds, at most 999999999.
SmallFromDigits(ds) ==
    IF Len(ds) > 9 THEN 999999999
    ELSE Fold(LAMBDA acc, i : 10 * acc + ds[i], 0, 1, Len(ds))

\* d * 10^k rounded to a double, for a natural number d > 0.  For k < 0 the
\* quotient d * 2^s / 5^(-k) is taken with enough digits (s) to round it.
RoundQuotient(neg, st, e) == Round(neg, st.q, st.sticky, e)

ScaleDown(neg, d, n, s) == RoundQuotient(neg, DivPow5(ShiftLeft(d, s), n), 0 - s - n)

Scale(neg, d, k) ==
    IF k >= 0 THEN Round(neg, MulPow5(d, k), FALSE, k)
    ELSE ScaleDown(neg, d, 0 - k, Max(0, 59 + ((0 - k) * 2322) \div 1000 - BitLen(d)))

\* The digits that decide the rounding: a double, and the midpoint of two
\* neighbouring doubles, has at most 767 significant decimal digits.
MaxSignificant == 768

\* The double of 0.sig * 10^point for the significant digits sig (no leading
\* zero): infinite from 10^309 on, zero below 10^-324, else the first
\* MaxSignificant digits and one more that tells whether the rest is zero.
Decimal(neg, sig, point) ==
    IF sig = <<>> THEN Zero(neg)
    ELSE IF point > 309 THEN Inf(neg)
    ELSE IF point < 0 - 323 THEN Zero(neg)
    ELSE IF Len(sig) <= MaxSignificant
         THEN Scale(neg, FromDigits(sig), point - Len(sig))
    ELSE IF \A i \in (MaxSignificant + 1)..Len(sig) : sig[i] = 0
         THEN Scale(neg, FromDigits(SubStr(sig, 1, MaxSignificant)),
                    point - MaxSignificant)
    ELSE Scale(neg, FromDigits(Append(SubStr(sig, 1, MaxSignificant), 1)),
               point - MaxSignificant - 1)

DigitValues(t, i, j) == [k \in 1..(IF j >= i THEN j - i + 1 ELSE 0) |-> DigitValue(t[i + k - 1])]

LeadingZeros(ds) == FirstOutside(ds, 1, {0}) - 1

\* The digits ds with the decimal point after the first `whole` of them,
\* times 10^ex.
FloatDigits(neg, ds, whole, ex) ==
    Decimal(neg, SubStr(ds, LeadingZeros(ds) + 1, Len(ds)),
            whole - LeadingZeros(ds) + ex)

\* The exponent of the literal t scanned as f.
Exponent(t, f) ==
    IF ~f.hasExp THEN 0
    ELSE IF t[f.i2 + 1] = 45
         THEN 0 - SmallFromDigits(SubStr(DigitValues(t, f.q, f.i3 - 1),
                     LeadingZeros(DigitValues(t, f.q, f.i3 - 1)) + 1, f.i3 - f.q))
         ELSE SmallFromDigits(SubStr(DigitValues(t, f.q, f.i3 - 1),
                     LeadingZeros(DigitValues(t, f.q, f.i3 - 1)) + 1, f.i3 - f.q))

\* The float written by the literal t (no underscores), scanned as f.
FloatValue(t, f) ==
    FloatDigits(t[1] = 45,
                DigitValues(t, f.p, f.i1 - 1)
                    \o (IF f.hasDot THEN DigitValues(t, f.i1 + 1, f.i2 - 1) ELSE <<>>),
                f.i1 - f.p, Exponent(t, f))

FloatScanned(t) ==
    IF AsciiLower(SubStr(t, AfterSign(t, 1), Len(t))) = <<110, 97, 110>> THEN NaN
    ELSE IF IsSpecial(t) THEN Inf(t[1] = 45)
    ELSE FloatValue(t, FloatScan(t))

\* float(s) for a str s that FloatParses.
FloatOf(s) == FloatScanned(NoUnderscores(Literal(s)))

\* a < b on the magnitudes of two finite doubles.
MagLt(a, b) ==
    IF b.m = <<>> THEN FALSE
    ELSE IF a.m = <<>> THEN TRUE
    ELSE a.e < b.e \/ (a.e = b.e /\ CmpBig(a.m, b.m) < 0)

\* a < b on floats: false when either is not a number.
FloatLt(a, b) ==
    /\ a.c # "nan" /\ b.c # "nan"
    /\ IF a.c = "inf" THEN a.neg /\ ~(b.c = "inf" /\ b.neg)
       ELSE IF b.c = "inf" THEN ~b.neg
       ELSE IF a.neg /\ ~b.neg THEN a.m # <<>> \/ b.m # <<>>
       ELSE IF ~a.neg /\ b.neg THEN FALSE
       ELSE IF a.neg THEN MagLt(b, a)
       ELSE MagLt(a, b)

\* The sum of two finite doubles that are not zero: exact at the lower of
\* the two exponents, then rounded.
AddAligned(aneg, am, bneg, bm, e) ==
    IF aneg = bneg THEN Round(aneg, AddBig(am, bm, 1), FALSE, e)
    ELSE IF am = bm THEN Zero(FALSE)
    ELSE IF CmpBig(am, bm) > 0 THEN Round(aneg, AddBig(am, bm, -1), FALSE, e)
    ELSE Round(bneg, AddBig(bm, am, -1), FALSE, e)

\* a + b on floats.
FloatAdd(a, b) ==
    IF a.c = "nan" \/ b.c = "nan" THEN NaN
    ELSE IF a.c = "inf" /\ b.c = "inf" THEN (IF a.neg = b.neg THEN a ELSE NaN)
    ELSE IF a.c = "inf" THEN a
    ELSE IF b.c = "inf" THEN b
    ELSE IF a.m = <<>> /\ b.m = <<>> THEN Zero(a.neg /\ b.neg)
    ELSE IF a.m = <<>> THEN b
    ELSE IF b.m = <<>> THEN a
    ELSE AddAligned(a.neg, ShiftLeft(a.m, a.e - Min(a.e, b.e)),
                    b.neg, ShiftLeft(b.m, b.e - Min(a.e, b.e)), Min(a.e, b.e))

\* a / n on a float a and an int n with 0 < n < 2^16: the quotient of
\* m * 2^64 by n, rounded.
FloatDivEnd(a, d) == Round(a.neg, Norm(d.q), d.r # 0, a.e - 64)

FloatDiv(a, n) ==
    IF a.c # "fin" \/ a.m = <<>> THEN a
    ELSE FloatDivEnd(a, DivSmall(ShiftLeft(a.m, 64), n))

\* The decimal digits of the natural number h, as characters, in n places.
DecimalEnd(st, d) == [q |-> Norm(d.q), out |-> <<48 + d.r>> \o st.out]

DecimalStep(st) == DecimalEnd(st, DivSmall(st.q, 10))

DecimalDigits(h, n) ==
    Fold(LAMBDA st, i : DecimalStep(st), [q |-> h, out |-> <<>>], 1, n).out

\* m * 2^e in hundredths, rounded to the nearest natural number, ties to
\* even.
RoundToUnit(q, r) ==
    IF r <= 0 THEN ShiftLeft(q, 0 - r)
    ELSE IF BitAt(q, r - 1) = 1 /\ (AnyBelow(q, r - 1) \/ BitAt(q, r) = 1)
         THEN AddBig(ShiftRight(q, r), <<1>>, 1)
         ELSE ShiftRight(q, r)

Hundredths(m, e) == RoundToUnit(MulSmall(m, 100, 0), 0 - e)

\* The digits ds of a number of hundredths with a point before the last
\* two, without the leading zeros before the units.
Pointed(ds) ==
    SubStr(ds, Min(FirstOutside(ds, 1, {48}), Len(ds) - 2), Len(ds) - 2)
        \o <<46>> \o SubStr(ds, Len(ds) - 1, Len(ds))

FormatHundredths(h) == Pointed(DecimalDigits(h, (BitLen(h) * 30103) \div 100000 + 3))

\* f"{x:.2f}"
Format2(x) ==
    IF x.c = "nan" THEN <<110, 97, 110>>
    ELSE (IF x.neg THEN <<45>> ELSE <<>>)
         \o (IF x.c = "inf" THEN <<105, 110, 102>>
             ELSE FormatHundredths(Hundredths(x.m, x.e)))

(***************************************************************************)
(* generate_insights: the statistics of the numeric columns and the modes  *)
(* of the string columns, as the detail lines print them.                  *)
(***************************************************************************)
\* min(vals): the first of the least values; here over vals[lo..hi], from best.
MinFrom(vals, best, lo, hi) ==
    Fold(LAMBDA b, i : IF FloatLt(vals[i], b) THEN vals[i] ELSE b, best, lo, hi)

\* max(vals): the first of the greatest values.
MaxValFrom(vals, best, lo, hi) ==
    Fold(LAMBDA b, i : IF FloatLt(b, vals[i]) THEN vals[i] ELSE b, best, lo, hi)

\* sum(vals): vals[lo..hi] added to acc from left to right.
SumFrom(vals, acc, lo, hi) ==
    Fold(LAMBDA a, i : FloatAdd(a, vals[i]), acc, lo, hi)

\* sum(vals) / len(vals)
Average(vals) == FloatDiv(SumFrom(vals, Zero(FALSE), 1, Len(vals)), Len(vals))

\* v is None or str(v).strip() == "": the scan passes over the value.
Skipped(v) == v.t = "none" \/ strip(str(v)) = <<>>

\* float(v) does not raise.
Floatable(v) == v.t = "str" /\ FloatParses(v.s)

\* Variant of the numeric scan: a missing or blank value counts as zero.
NumericVals_BlankAsZero(sample, col) ==
    LET kept == SelectSeq(sample,
                    LAMBDA r : Skipped(DictGet(r, col)) \/ Floatable(DictGet(r, col)))
    IN  [i \in 1..Len(kept) |->
            IF Skipped(DictGet(kept[i], col)) THEN Zero(FALSE)
            ELSE FloatOf(DictGet(kept[i], col).s)]

\* The values of column col that the numeric scan keeps, in sample order.
NumericVals(sample, col) ==
    LET kept == SelectSeq(sample,
                    LAMBDA r : ~Skipped(DictGet(r, col)) /\ Floatable(DictGet(r, col)))
    IN  [i \in 1..Len(kept) |-> FloatOf(DictGet(kept[i], col).s)]

\* f"{col}" for a column name: a str, or None.
Name(col) == IF col = restkey THEN str(NoneVal) ELSE col

\* f"{col}: avg {avg:.2f}, min {mn:.2f}, max {mx:.2f} based on sample"
NumericLine(col, vals) ==
    Name(col) \o Text(<<":", " ", "a", "v", "g", " ">>)
    \o Format2(Average(vals))
    \o Text(<<",", " ", "m", "i", "n", " ">>)
    \o Format2(MinFrom(vals, vals[1], 2, Len(vals)))
    \o Text(<<",", " ", "m", "a", "x", " ">>)
    \o Format2(MaxValFrom(vals, vals[1], 2, Len(vals)))
    \o Text(<<" ", "b", "a", "s", "e", "d", " ", "o", "n", " ",
              "s", "a", "m", "p", "l", "e">>)

NumericFor(column, vals) ==
    IF column.type \in {"int", "float"} /\ vals # <<>>
    THEN <<NumericLine(column.name, vals)>> ELSE <<>>

RECURSIVE NumericDetails(_, _, _)
NumericDetails(columns, sample, i) ==
    IF i > Len(columns) THEN <<>>
    ELSE NumericFor(columns[i], NumericVals(sample, columns[i].name))
         \o NumericDetails(columns, sample, i + 1)

\* One more occurrence of the string k.
Counted(freq, k) ==
    IF HasKey(freq, k) THEN DictSet(freq, k, DictGet(freq, k) + 1)
    ELSE DictSet(freq, k, 1)

\* r.get(col) not in (None, "")
Present(v) == v.t # "none" /\ ~(v.t = "str" /\ v.s = <<>>)

CountRow(freq, v) == IF Present(v) THEN Counted(freq, str(v)) ELSE freq

\* Counter([...]): occurrences of str(value) over the rows lo..hi whose value
\* is neither None nor "", keyed in order of first occurrence.
CounterFrom(freq, sample, col, lo, hi) ==
    Fold(LAMBDA f, i : CountRow(f, DictGet(sample[i], col)), freq, lo, hi)

\* Variant: the last entry with the greatest count.
MostCommonFrom_Last(freq, best, lo, hi) ==
    Fold(LAMBDA b, i : IF freq[i].v >= freq[b].v THEN i ELSE b, best, lo, hi)

\* most_common(1)[0]: the index of the first entry with the greatest count
\* among best and freq[lo..hi].
MostCommonFrom(freq, best, lo, hi) ==
    Fold(LAMBDA b, i : IF freq[i].v > freq[b].v THEN i ELSE b, best, lo, hi)

\* str(n) for an int n >= 0.
IntStr(n) ==
    SubStr(DecimalDigits(Norm(<<n>>), 5),
           Min(FirstOutside(DecimalDigits(Norm(<<n>>), 5), 1, {48}), 5), 5)

\* f"{col}: most frequent value is '{top}' ({cnt} occurrences in sample)"
CategoricalLine(col, top) ==
    Name(col)
    \o Text(<<":", " ", "m", "o", "s", "t", " ", "f", "r", "e", "q", "u", "e",
              "n", "t", " ", "v", "a", "l", "u", "e", " ", "i", "s", " ", "'">>)
    \o top.k
    \o Text(<<"'", " ", "(">>)
    \o IntStr(top.v)
    \o Text(<<" ", "o", "c", "c", "u", "r", "r", "e", "n", "c", "e", "s", " ",
              "i", "n", " ", "s", "a", "m", "p", "l", "e", ")">>)

CategoricalFor(column, freq) ==
    IF column.type = "string" /\ freq # <<>>
    THEN <<CategoricalLine(column.name,
                           freq[MostCommonFrom(freq, 1, 2, Len(freq))])>>
    ELSE <<>>

RECURSIVE CategoricalDetails(_, _, _)
CategoricalDetails(columns, sample, i) ==
    IF i > Len(columns) THEN <<>>
    ELSE CategoricalFor(columns[i],
                        CounterFrom(<<>>, sample, columns[i].name, 1, Len(sample)))
         \o CategoricalDetails(columns, sample, i + 1)

Details(columns, sample) ==
    NumericDetails(columns, sample, 1) \o CategoricalDetails(columns, sample, 1)

Summary == "Quick AI-style summary based on your data sample."

(***************************************************************************)
(* The document store (database.create_document, get_documents and the     *)
(* collections' find_one) and bson.ObjectId.  Each collection is the       *)
(* sequence of its documents in creation order.  An ObjectId is twelve     *)
(* bytes; the store gives the n-th document it creates the ObjectId of the *)
(* number n.                                                               *)
(***************************************************************************)
HexDigits == (48..57) \cup (65..70) \cup (97..102)

HexValue(c) == IF c <= 57 THEN c - 48 ELSE IF c <= 70 THEN c - 55 ELSE c - 87

\* ObjectId(s) accepts a str of 24 hexadecimal digits and raises InvalidId
\* for every other.
IsObjectId(s) == Len(s) = 24 /\ \A i \in 1..Len(s) : s[i] \in HexDigits

ObjectId(s) == [i \in 1..12 |-> 16 * HexValue(s[2 * i - 1]) + HexValue(s[2 * i])]

\* str(oid): the bytes in hexadecimal, small letters.
ObjectIdStr(oid) ==
    [i \in 1..24 |->
        Hex(IF i % 2 = 1 THEN oid[(i + 1) \div 2] \div 16 ELSE oid[i \div 2] % 16, 1)[1]]

NewObjectId(n) == [i \in 1..12 |-> IF i < 9 THEN 0 ELSE (n \div 256^(12 - i)) % 256]

\* The number of the next document, and the id string of the n-th.
NextOid == Len(datasets) + Len(insights) + Len(charts) + 1
Oid(n) == ObjectIdStr(NewObjectId(n))

\* create_document(collection, doc): the collection with doc added.
create_document(coll, doc) == Append(coll, doc)

\* find_one({"_id": oid}): the documents with that id (none or one).
find_one(coll, oid) == SelectSeq(coll, LAMBDA d : d._id = oid)

\* serialize_doc: None and {} as they are; otherwise a copy in which the
\* "_id", if there is one, has left as the string "id".
serialize_doc(doc) ==
    IF doc = NoneVal \/ DOMAIN doc = {} THEN doc
    ELSE IF "_id" \in DOMAIN doc
    THEN [k \in (DOMAIN doc \ {"_id"}) \cup {"id"} |->
            IF k = "id" THEN ObjectIdStr(doc._id) ELSE doc[k]]
    ELSE doc

Serialized(coll) == [i \in 1..Len(coll) |-> serialize_doc(coll[i])]

(***************************************************************************)
(* Requests and responses.                                                 *)
(***************************************************************************)
NoReq == [op |-> "none"]
NoResp == [status |-> 0, detail |-> "", body |-> <<>>]

Error(status, detail) == [status |-> status, detail |-> detail, body |-> <<>>]
Ok(body) == [status |-> 200, detail |-> "", body |-> body]

\* An exception that no handler catches: the framework's answer.
Uncaught == Error(500, "Internal Server Error")

MissingBson == "Missing bson (from pymongo). Ensure pymongo is installed."

EndsWith(s, suffix) ==
    /\ Len(s) >= Len(suffix)
    /\ SubStr(s, Len(s) - Len(suffix) + 1, Len(s)) = suffix

DotCsv == Text(<<".", "c", "s", "v">>)

\* The truth of an Optional[str]: None and "" are false.
Truthy(v) == v.t # "none" /\ ~(v.t = "str" /\ v.s = <<>>)

StoreUnchanged == UNCHANGED <<datasets, insights, charts>>
Frame == UNCHANGED <<env, value, inferred>>

(***************************************************************************)
(* POST /api/datasets                                                      *)
(***************************************************************************)
\* upload_dataset up to  await file.read() : the request is refused, or it
\* passes the three checks and waits for the content of its file.
upload_dataset(file, name) ==
    /\ Frame /\ StoreUnchanged
    /\ IF ~EndsWith(lower(file.filename), DotCsv)
       THEN /\ req' = [op |-> "upload_dataset", file |-> file, name |-> name]
            /\ resp' = Error(400, "Only CSV files are supported")
            /\ UNCHANGED awaiting
       ELSE IF ~env.db
       THEN /\ req' = [op |-> "upload_dataset", file |-> file, name |-> name]
            /\ resp' = Error(500,
                  "Database not configured. Set DATABASE_URL and DATABASE_NAME.")
            /\ UNCHANGED awaiting
       ELSE IF ~env.multipart
       THEN /\ req' = [op |-> "upload_dataset", file |-> file, name |-> name]
            /\ resp' = Error(500,
                  "Missing dependency: python-multipart. Please add it to requirements.txt")
            /\ UNCHANGED awaiting
       ELSE /\ awaiting' = awaiting (+) SetToBag({[file |-> file, name |-> name]})
            /\ UNCHANGED <<req, resp>>

\* upload_dataset from the await on, for one of the waiting requests: the
\* content is decoded and read; an error of the reader is caught by
\* nothing.
upload_dataset_resume(waiting) ==
    \E file \in {waiting.file}, name \in {waiting.name} :
    /\ req' = [op |-> "upload_dataset", file |-> file, name |-> name]
    /\ awaiting' = awaiting (-) SetToBag({waiting})
    /\ Frame
    /\ \E st \in {Extract(decode(file.content))} :
            IF st.error
            THEN resp' = Uncaught /\ StoreUnchanged
            ELSE IF Rejected(st)
            THEN resp' = Error(400, "Empty CSV or failed to parse")
                 /\ StoreUnchanged
            ELSE \E dataset_doc \in
                    {[name |-> IF Truthy(name) THEN name.s ELSE file.filename,
                      columns |-> columns_meta(st.type_counts),
                      sample |-> st.rows,
                      row_count |-> st.total]} :
                 /\ datasets' = create_document(datasets,
                        [_id |-> NewObjectId(NextOid)] @@ dataset_doc)
                 /\ resp' = Ok(<<[id |-> Oid(NextOid)] @@ dataset_doc>>)
                 /\ UNCHANGED <<insights, charts>>

(***************************************************************************)
(* GET /api/datasets and GET /api/datasets/{dataset_id}                    *)
(***************************************************************************)
list_datasets ==
    /\ req' = [op |-> "list_datasets"]
    /\ Frame /\ StoreUnchanged /\ UNCHANGED awaiting
    /\ resp' = IF ~env.db THEN Ok(<<>>) ELSE Ok(Serialized(datasets))

get_dataset(dataset_id) ==
    /\ req' = [op |-> "get_dataset", dataset_id |-> dataset_id]
    /\ Frame /\ StoreUnchanged /\ UNCHANGED awaiting
    /\ resp' = IF ~env.db THEN Error(500, "Database not configured")
               ELSE IF ~env.bson THEN Error(500, MissingBson)
               ELSE IF ~IsObjectId(dataset_id) THEN Uncaught
               ELSE LET doc == find_one(datasets, ObjectId(dataset_id))
                    IN  IF doc = <<>> THEN Error(404, "Dataset not found")
                        ELSE Ok(<<serialize_doc(doc[1])>>)

(***************************************************************************)
(* POST /api/insights/{dataset_id}                                         *)
(***************************************************************************)
\* Variant: the sample is dropped from the dataset once its insight is made.
generate_insights_Caching(dataset_id) ==
    /\ req' = [op |-> "generate_insights", dataset_id |-> dataset_id]
    /\ Frame /\ UNCHANGED awaiting
    /\ IF ~env.db
       THEN resp' = Error(500, "Database not configured") /\ StoreUnchanged
       ELSE IF ~env.bson
       THEN resp' = Error(500, MissingBson) /\ StoreUnchanged
       ELSE IF ~IsObjectId(dataset_id)
       THEN resp' = Uncaught /\ StoreUnchanged
       ELSE \E doc \in {find_one(datasets, ObjectId(dataset_id))} :
            IF doc = <<>>
            THEN resp' = Error(404, "Dataset not found") /\ StoreUnchanged
            ELSE \E insight_doc \in
                    {[dataset_id |-> dataset_id,
                      summary |-> Summary,
                      details |-> Details(doc[1].columns, doc[1].sample)]} :
                 /\ insights' = create_document(insights,
                        [_id |-> NewObjectId(NextOid)] @@ insight_doc)
                 /\ datasets' =
                        [i \in 1..Len(datasets) |->
                            IF datasets[i]._id = ObjectId(dataset_id)
                            THEN [datasets[i] EXCEPT !.sample = <<>>]
                            ELSE datasets[i]]
                 /\ resp' = Ok(<<[id |-> Oid(NextOid)] @@ insight_doc>>)
                 /\ UNCHANGED charts

generate_insights(dataset_id) ==
    /\ req' = [op |-> "generate_insights", dataset_id |-> dataset_id]
    /\ Frame /\ UNCHANGED awaiting
    /\ IF ~env.db
       THEN resp' = Error(500, "Database not configured") /\ StoreUnchanged
       ELSE IF ~env.bson
       THEN resp' = Error(500, MissingBson) /\ StoreUnchanged
       ELSE IF ~IsObjectId(dataset_id)
       THEN resp' = Uncaught /\ StoreUnchanged
       ELSE \E doc \in {find_one(datasets, ObjectId(dataset_id))} :
            IF doc = <<>>
            THEN resp' = Error(404, "Dataset not found") /\ StoreUnchanged
            ELSE \E insight_doc \in
                    {[dataset_id |-> dataset_id,
                      summary |-> Summary,
                      details |-> Details(doc[1].columns, doc[1].sample)]} :
                 /\ insights' = create_document(insights,
                        [_id |-> NewObjectId(NextOid)] @@ insight_doc)
                 /\ resp' = Ok(<<[id |-> Oid(NextOid)] @@ insight_doc>>)
                 /\ UNCHANGED <<datasets, charts>>

(***************************************************************************)
(* POST /api/charts and GET /api/charts                                    *)
(***************************************************************************)
save_chart(payload) ==
    /\ req' = [op |-> "save_chart", payload |-> payload]
    /\ Frame /\ UNCHANGED awaiting
    /\ IF ~env.db
       THEN resp' = Error(500, "Database not configured") /\ StoreUnchanged
       ELSE IF ~env.bson
       THEN resp' = Error(500, MissingBson) /\ StoreUnchanged
       ELSE IF ~IsObjectId(payload.dataset_id)
       THEN resp' = Uncaught /\ StoreUnchanged
       ELSE IF find_one(datasets, ObjectId(payload.dataset_id)) = <<>>
       THEN resp' = Error(400, "Related dataset not found") /\ StoreUnchanged
       ELSE /\ charts' = create_document(charts,
                   [_id |-> NewObjectId(NextOid)] @@ payload)
            /\ resp' = Ok(<<[id |-> Oid(NextOid)] @@ payload>>)
            /\ UNCHANGED <<datasets, insights>>

\* dataset_id is an Optional[str]; the filter is set for a str that is not
\* empty.
list_charts(dataset_id) ==
    /\ req' = [op |-> "list_charts", dataset_id |-> dataset_id]
    /\ Frame /\ StoreUnchanged /\ UNCHANGED awaiting
    /\ resp' = IF ~env.db THEN Ok(<<>>)
               ELSE IF ~Truthy(dataset_id) THEN Ok(Serialized(charts))
               ELSE Ok(Serialized(SelectSeq(charts,
                        LAMBDA c : c.dataset_id = dataset_id.s)))

\* One call of infer_type on the string under test.
InferType ==
    /\ inferred = "pending"
    /\ inferred' = infer_type(value)
    /\ UNCHANGED <<env, datasets, insights, charts, awaiting, req, resp, value>>

(***************************************************************************)
(* Inputs.                                                                 *)
(***************************************************************************)
SeqsUpTo(S, n) == UNION {[1..k -> S] : k \in 0..n}

\* Characters for infer_type: those of the literals, a space, the
\* separator 28 (which strip() removes and int() and float() refuse) and
\* the ARABIC-INDIC DIGIT THREE.
Alphabet == {ord(c) : c \in {" ", "-", "1", ".", "e", "_", "a", "n"}} \cup {28, 1635}

\* Runs of the digit 1 at the limit of int() and one beyond it, bare and
\* after a sign.
LongDigits ==
    UNION {{[i \in 1..n |-> 49], <<45>> \o [i \in 1..n |-> 49]} :
              n \in {int_max_str_digits, int_max_str_digits + 1}}

Strings == SeqsUpTo(Alphabet, MaxStrLen) \cup LongDigits

\* Cells of an uploaded file: empty, an int, a float, a word, a form feed.
Cells ==
    {<<>>, Text(<<"1">>), Text(<<"1", ".", "5">>), Text(<<"a">>), <<12>>}
SecondCells == {Text(<<"1">>)}

\* Header lines: one column, two columns, a repeated name.
ColA == Text(<<"a">>)
ColB == Text(<<"b">>)
Headers == {<<ColA>>, <<ColA, ColB>>, <<ColA, ColA>>}

\* Data lines: blank, one field, two fields.
Records ==
    {<<>>} \cup {<<x>> : x \in Cells}
           \cup {<<x, y>> : x \in {<<>>}, y \in SecondCells}

CsvName == Text(<<"d", ".", "c", "s", "v">>)
UpperName == Text(<<"D", ".", "C", "S", "V">>)
TxtName == Text(<<"d", ".", "t", "x", "t">>)
BareName == Text(<<"c", "s", "v">>)

\* A line as csv.writer writes it when no field needs quotes: the fields
\* with commas between them, a lone empty field as "", then CR LF.
RECURSIVE JoinFrom(_, _)
JoinFrom(fields, i) ==
    IF i > Len(fields) THEN <<>>
    ELSE (IF i > 1 THEN <<Delimiter>> ELSE <<>>) \o fields[i] \o JoinFrom(fields, i + 1)

Line(fields) ==
    (IF fields = <<<<>>>> THEN <<QuoteChar, QuoteChar>> ELSE JoinFrom(fields, 1))
    \o <<13, 10>>

\* The content of a file of the given lines; the characters of the lines
\* are ASCII, which UTF-8 encodes as themselves.
CsvBytes(lines) == Fold(LAMBDA out, i : out \o Line(lines[i]), <<>>, 1, Len(lines))

RawFile(filename, content) == [filename |-> filename, content |-> content]
File(filename, lines) == RawFile(filename, CsvBytes(lines))

\* Files of a header and at most MaxRows data lines.
ShortFiles ==
    {File(CsvName, <<h>> \o b) : h \in Headers, b \in SeqsUpTo(Records, MaxRows)}

\* Files longer than the preview: a pattern of one or two lines repeated
\* to about max_preview lines, then at most MaxTail further lines.
LongRecords == {<<>>, <<Text(<<"1">>)>>, <<ColA, ColB>>}
Patterns == {<<r>> : r \in LongRecords} \cup (LongRecords \X LongRecords)
FillCounts == {max_preview - 1, max_preview, max_preview + 1}

Cycle(pattern, n) == [i \in 1..n |-> pattern[((i - 1) % Len(pattern)) + 1]]

LongFiles ==
    {File(CsvName, <<<<ColA>>>> \o Cycle(p, n) \o t) :
        p \in Patterns, n \in FillCounts, t \in SeqsUpTo(LongRecords, MaxTail)}

\* Contents that no csv.writer wrote: a carriage return inside a line
\* (csv.Error) and at the end of one; a quoted field with a comma, a doubled
\* quote and a line break in it; a quoted field that the end of the file
\* closes; an empty first line; a byte that is no UTF-8 before a character
\* of two bytes; a byte order mark.
OddContents ==
    {Text(<<"a">>) \o <<13, 10>> \o Text(<<"x">>) \o <<13>> \o Text(<<"y">>) \o <<13, 10>>,
     Text(<<"a">>) \o <<13>> \o Text(<<"1">>),
     Text(<<"a">>) \o <<10>> \o Text(<<"1">>) \o <<13>>,
     Text(<<"a", ",", "b">>) \o <<10, 34>> \o Text(<<"x", ",">>) \o <<34, 34>>
        \o Text(<<"y">>) \o <<13, 10>> \o Text(<<"z">>) \o <<34>> \o Text(<<",", "1">>) \o <<10>>,
     Text(<<"a">>) \o <<10, 34>> \o Text(<<"x">>),
     <<13, 10>> \o Text(<<"a">>) \o <<13, 10>> \o Text(<<"1">>) \o <<13, 10>>,
     Text(<<"a">>) \o <<10, 255>> \o Text(<<"1">>) \o <<195, 169, 10>>,
     <<239, 187, 191>> \o Text(<<"a">>) \o <<10>> \o Text(<<"1">>) \o <<10>>}

\* Files with nothing in them, files under other names, and the odd
\* contents.
OddFiles ==
    {File(CsvName, <<>>)}
    \cup {File(f, l) : f \in {UpperName, TxtName, BareName},
                       l \in {<<>>, <<<<ColA>>, <<Text(<<"1">>)>>>>}}
    \cup {RawFile(CsvName, c) : c \in OddContents}

UploadFiles == ShortFiles \cup LongFiles \cup OddFiles

\* Cells for the insight engine: empty, a form feed, two numbers whose
\* mean lies midway between two hundredths, two words.
InsightCells ==
    {<<>>, <<12>>, Text(<<"1">>), Text(<<"0", ".", "0", "1">>), ColA, ColB}

\* Data lines for the insight engine: blank, one field, two fields, and
\* one of three fields, the last with a quote in it.
InsightRecords ==
    {<<>>} \cup {<<x>> : x \in InsightCells}
           \cup {<<x, y>> : x \in {ColB}, y \in SecondCells}
           \cup {<<ColA, ColB, Text(<<"i", "t", "'", "s">>)>>}

\* Files for the insight engine: two columns, at most MaxRows data lines.
InsightFiles ==
    {File(CsvName, <<<<ColA, ColB>>>> \o b) : b \in SeqsUpTo(InsightRecords, MaxRows)}

\* Files for the whole system: one of two columns and two rows, under a
\* .csv name and under another, and one that the reader refuses.
TwoByTwo == <<<<ColA, ColB>>, <<Text(<<"1">>), ColB>>, <<ColA>>>>

Refused == RawFile(CsvName, Text(<<"a">>) \o <<13>> \o Text(<<"1">>))

\* The uploads of the whole system: the first two without a name, the last
\* under the name n.
Uploads ==
    {<<Refused, NoneVal>>, <<File(TxtName, TwoByTwo), NoneVal>>,
     <<File(CsvName, TwoByTwo), StrVal(Text(<<"n">>))>>}

ChartPayload(dataset_id) ==
    [dataset_id |-> dataset_id, title |-> "t", chart_type |-> "bar",
     x |-> "a", y |-> NoneVal, agg |-> NoneVal, options |-> <<>>]

\* Id strings a client may send in a path: the ids of the datasets, the id
\* that the store hands out next (well formed, of no document), and a
\* string that is no ObjectId.  In a payload or a query the string may also
\* be empty.
BadId == Text(<<"a", "b", "c">>)
RequestIds ==
    {ObjectIdStr(datasets[i]._id) : i \in 1..Len(datasets)} \cup {Oid(NextOid), BadId}

Envs == [db : BOOLEAN, multipart : BOOLEAN, bson : BOOLEAN]
FullEnv == [db |-> TRUE, multipart |-> TRUE, bson |-> TRUE]

(***************************************************************************)
(* Specifications.                                                         *)
(***************************************************************************)
Init ==
    /\ env \in Envs
    /\ datasets = <<>> /\ insights = <<>> /\ charts = <<>>
    /\ awaiting = EmptyBag
    /\ req = NoReq /\ resp = NoResp
    /\ value = <<>> /\ inferred = "idle"

\* The documents made and to be made by the requests that wait.
Claimed == NextOid + BagCardinality(awaiting)

Upload ==
    \E u \in Uploads :
        /\ BagCardinality(awaiting) < MaxAwaiting /\ Claimed <= MaxDocs
        /\ upload_dataset(u[1], u[2])

\* The content of a waiting upload arrives; the requests need not resume in
\* the order they arrived.
Resume == \E waiting \in BagToSet(awaiting) : upload_dataset_resume(waiting)

ListDatasets == list_datasets

GetDataset == \E id \in RequestIds : get_dataset(id)

GenerateInsights ==
    \E id \in RequestIds : Claimed <= MaxDocs /\ generate_insights(id)

SaveChart ==
    \E id \in RequestIds \cup {<<>>} :
        Claimed <= MaxDocs /\ save_chart(ChartPayload(id))

ListCharts ==
    \E id \in {NoneVal} \cup {StrVal(s) : s \in RequestIds \cup {<<>>}} :
        list_charts(id)

Next ==
    \/ Upload
    \/ Resume
    \/ ListDatasets
    \/ GetDataset
    \/ GenerateInsights
    \/ SaveChart
    \/ ListCharts

Spec == Init /\ [][Next]_vars

\* infer_type applied to one string.
InitInfer ==
    /\ env = FullEnv
    /\ datasets = <<>> /\ insights = <<>> /\ charts = <<>>
    /\ awaiting = EmptyBag
    /\ req = NoReq /\ resp = NoResp
    /\ value \in Strings /\ inferred = "pending"

NextInfer == InferType

SpecInfer == InitInfer /\ [][NextInfer]_vars

\* One upload into an empty store.
InitUpload ==
    /\ env = FullEnv
    /\ datasets = <<>> /\ insights = <<>> /\ charts = <<>>
    /\ awaiting = EmptyBag
    /\ req = NoReq /\ resp = NoResp
    /\ value = <<>> /\ inferred = "idle"

UploadOne ==
    /\ req = NoReq /\ awaiting = EmptyBag
    /\ \E f \in UploadFiles : upload_dataset(f, NoneVal)

NextUpload == UploadOne \/ Resume

SpecUpload == InitUpload /\ [][NextUpload]_vars

\* One upload, then one request for insights.
UploadForInsight ==
    /\ req = NoReq /\ awaiting = EmptyBag
    /\ \E f \in InsightFiles : upload_dataset(f, NoneVal)

InsightOne ==
    /\ req.op = "upload_dataset"
    /\ \E id \in {Oid(1), Oid(2)} : generate_insights(id)

NextInsight == UploadForInsight \/ Resume \/ InsightOne

SpecInsight == InitUpload /\ [][NextInsight]_vars

(***************************************************************************)
(* Properties.                                                             *)
(***************************************************************************)
Types == {"int", "float", "string"}

Uploaded == req.op = "upload_dataset" /\ resp.status = 200

\* What the reader makes of the uploaded file, the rows it yields, and the
\* dataset returned for the file.
Read == csv_reader(decode(req.file.content))
Rows == DictReader(Read.records)
Returned == resp.body[1]

\* The number of rows in which key k holds a value of type t.
Votes(rows, k, t) ==
    Cardinality({i \in 1..Len(rows) :
        /\ HasKey(rows[i], k)
        /\ LET v == DictGet(rows[i], k)
           IN  infer_type(IF v.t = "none" THEN <<>> ELSE str(v)) = t})

ColumnNames(d) == {d.columns[i].name : i \in 1..Len(d.columns)}

ColumnType(d, k) ==
    d.columns[CHOOSE i \in 1..Len(d.columns) : d.columns[i].name = k].type

AllKeys(rows) == UNION {Keys(rows[i]) : i \in 1..Len(rows)}

AllNull(rows, k) == \A t \in Types : Votes(rows, k, t) = 0

\* C1: after an upload, every column descriptor's type is one of int, float,
\* string, and no other of these three has more votes in the column's tally.
WinningTypeHasMostVotes ==
    Uploaded =>
        \A rows \in {Rows} :
            \A i \in 1..Len(Returned.columns) :
                \A c \in {Returned.columns[i]} :
                    /\ c.type \in Types
                    /\ \A n \in {Votes(rows, c.name, c.type)} :
                          \A t \in Types : n >= Votes(rows, c.name, t)

\* A column typed float with two float votes against one int vote.
WinningTypeWitness ==
    /\ Uploaded
    /\ \E rows \in {Rows} :
         \E i \in 1..Len(Returned.columns) :
            \E c \in {Returned.columns[i]} :
                /\ c.type = "float"
                /\ Votes(rows, c.name, "float") = 2
                /\ Votes(rows, c.name, "int") = 1

\* C2 as stated: a column that is null or empty in every row where its key
\* appears is among the columns after the upload, with the type string.
AllNullColumnIsString ==
    Uploaded =>
        \A rows \in {Rows} :
            \A k \in AllKeys(rows) :
                AllNull(rows, k) =>
                    /\ k \in ColumnNames(Returned)
                    /\ ColumnType(Returned, k) = "string"

\* C2 amended: a column that is null or empty in every row where its key
\* appears is among the columns after the upload, with the type int, the first
\* of the three types in the tally's order.
AllNullColumnIsInt ==
    Uploaded =>
        \A rows \in {Rows} :
            \A k \in AllKeys(rows) :
                AllNull(rows, k) =>
                    /\ k \in ColumnNames(Returned)
                    /\ ColumnType(Returned, k) = "int"

\* An uploaded file with a column that is empty in each of several rows, next
\* to a column that is not.
AllNullColumnWitness ==
    /\ Uploaded
    /\ \E rows \in {Rows} :
         /\ Len(rows) >= 2
         /\ \E k \in AllKeys(rows) : AllNull(rows, k)
         /\ \E k \in AllKeys(rows) : ~AllNull(rows, k)

\* C3: after an upload, row_count is the number of rows read, and the sample
\* is the first min(row_count, 100) of them, in order.
SampleIsFirstRows ==
    Uploaded =>
        \A rows \in {Rows} :
            \A d \in {Returned} :
                /\ d.row_count = Len(rows)
                /\ Len(d.sample) = Min(d.row_count, max_preview)
                /\ d.sample = SubSeq(rows, 1, Len(d.sample))
                /\ datasets[1].sample = d.sample
                /\ datasets[1].row_count = d.row_count

\* An upload of more than 100 rows whose rows differ from one to the next
\* and whose 101st row differs from the 100th.
SampleWitness ==
    /\ Uploaded
    /\ Returned.row_count > max_preview
    /\ Len(Returned.sample) = max_preview
    /\ Returned.sample[1] # Returned.sample[2]
    /\ \E rows \in {Rows} : rows[max_preview + 1] # rows[max_preview]

\* C4: after an upload, the names of the column descriptors are the keys of
\* all the rows read, each name once.
ColumnsAreAllKeys ==
    Uploaded =>
        \A names \in {ColumnNames(Returned)} :
            /\ names = AllKeys(Rows)
            /\ Cardinality(names) = Len(Returned.columns)
            /\ \A i \in 1..Len(Returned.sample) :
                   Keys(Returned.sample[i]) \subseteq names

\* An upload of more than 100 rows with a column whose key is in no row of the
\* sample.
LateColumnWitness ==
    /\ Uploaded
    /\ Returned.row_count > max_preview
    /\ \E k \in ColumnNames(Returned) :
         \A i \in 1..Len(Returned.sample) : ~HasKey(Returned.sample[i], k)

(***************************************************************************)
(* The literals that int() and float() accept, as grammars.                *)
(***************************************************************************)
IsBlank(s) == \A i \in 1..Len(s) : s[i] \in Whitespace

\* s[i..j] is  digit (["_"] digit)*
DigitPart(s, i, j) ==
    /\ 1 <= i /\ i <= j /\ j <= Len(s)
    /\ IsDigit(s[i]) /\ IsDigit(s[j])
    /\ \A k \in i..j :
          \/ IsDigit(s[k])
          \/ s[k] = 95 /\ IsDigit(s[k - 1]) /\ IsDigit(s[k + 1])

Signed(s, i) == IF s[i] \in {43, 45} THEN i + 1 ELSE i

\* s[i..j] is  digitpart ["." [digitpart]]  or  "." digitpart
Mantissa(s, i, j) ==
    \/ DigitPart(s, i, j)
    \/ \E d \in i..j :
          /\ s[d] = 46
          /\ d = i \/ DigitPart(s, i, d - 1)
          /\ d = j \/ DigitPart(s, d + 1, j)
          /\ i < j

\* s[i..j] is  mantissa [("e" | "E") ["+" | "-"] digitpart]
DecimalLiteral(s, i, j) ==
    \/ Mantissa(s, i, j)
    \/ \E e \in (i + 1)..(j - 1) :
          /\ s[e] \in {101, 69}
          /\ Mantissa(s, i, e - 1)
          /\ DigitPart(s, Signed(s, e + 1), j)

\* s[i..j] is inf, nan or infinity, in capitals or small letters.
SpecialLiteral(s, i, j) ==
    \E w \in SpecialFloats :
        /\ j - i + 1 = Len(w)
        /\ \A k \in 1..Len(w) : s[i + k - 1] \in {w[k], w[k] - 32}

\* s[i..j] is s without the space that a literal may stand in.
Framed(s, i, j) ==
    /\ i <= j
    /\ s[i] \notin LiteralSpace /\ s[j] \notin LiteralSpace
    /\ \A k \in 1..(i - 1) : s[k] \in LiteralSpace
    /\ \A k \in (j + 1)..Len(s) : s[k] \in LiteralSpace

\* An integer literal of at most 4300 digits.
IntLiteral(s) ==
    \E i \in 1..Len(s) :
        /\ \A k \in 1..(i - 1) : s[k] \in LiteralSpace
        /\ \E j \in i..Len(s) :
              /\ Framed(s, i, j)
              /\ DigitPart(s, Signed(s, i), j)
              /\ Cardinality({k \in i..j : IsDigit(s[k])}) <= 4300

FloatLiteral(s) ==
    \E i \in 1..Len(s) :
        /\ \A k \in 1..(i - 1) : s[k] \in LiteralSpace
        /\ \E j \in i..Len(s) :
              /\ Framed(s, i, j)
              /\ Signed(s, i) <= j
              /\ \/ DecimalLiteral(s, Signed(s, i), j)
                 \/ SpecialLiteral(s, Signed(s, i), j)

\* C5: infer_type returns one of null, int, float, string: null for a blank
\* string, else int for an integer literal, else float for a float literal,
\* else string.
InferTypeCascade ==
    inferred # "pending" =>
        /\ inferred \in {"null", "int", "float", "string"}
        /\ inferred = "null" <=> IsBlank(value)
        /\ inferred = "int" <=> ~IsBlank(value) /\ IntLiteral(value)
        /\ inferred = "float" <=>
              ~IsBlank(value) /\ ~IntLiteral(value) /\ FloatLiteral(value)
        /\ inferred = "string" <=>
              ~IsBlank(value) /\ ~IntLiteral(value) /\ ~FloatLiteral(value)

\* An integer literal with an underscore and a space, which float() accepts
\* as well, classified int.
InferTypeWitness ==
    /\ inferred = "int"
    /\ FloatLiteral(value)
    /\ \E i \in 1..Len(value) : value[i] = 95
    /\ \E i \in 1..Len(value) : value[i] = 32

\* C6: an upload whose row sequence yields no row, whether the sequence
\* ends or the reader fails before the first row, is answered with a client
\* error (4xx) and leaves the dataset collection empty; an upload whose row
\* sequence ends after exactly one row, under a .csv name, is stored with
\* row_count 1; no stored dataset has row_count 0, and an upload that is
\* refused stores nothing.
EmptyUploadRefused ==
    /\ \A i \in 1..Len(datasets) : datasets[i].row_count # 0
    /\ req.op = "upload_dataset" =>
          /\ resp.status # 200 => datasets = <<>>
          /\ \A rd \in {Read} :
                \A n \in {Len(DictReader(rd.records))} :
                    /\ n = 0 =>
                          /\ resp.status >= 400 /\ resp.status < 500
                          /\ datasets = <<>>
                    /\ n = 1 /\ ~rd.error
                       /\ EndsWith(lower(req.file.filename), DotCsv) =>
                          /\ resp.status = 200
                          /\ Len(datasets) = 1
                          /\ datasets[1].row_count = 1

(***************************************************************************)
(* The insight engine.                                                     *)
(***************************************************************************)
Insighted == req.op = "generate_insights" /\ resp.status = 200

\* The id string names a document of the collection.
Referenced(coll, id) == \E j \in 1..Len(coll) : ObjectIdStr(coll[j]._id) = id

\* The number of the document that the store gave the ObjectId.
RECURSIVE CreatedFrom(_, _)
CreatedFrom(oid, i) == IF i = 0 THEN 0 ELSE 256 * CreatedFrom(oid, i - 1) + oid[i]
Created(doc) == CreatedFrom(doc._id, 12)

\* The dataset that the last insight request named.
Subject == find_one(datasets, ObjectId(req.dataset_id))[1]

IsPrefix(s, t) == Len(s) <= Len(t) /\ SubSeq(t, 1, Len(s)) = s

\* A column name as a detail line shows it: the key None reads None.
Label(col) == IF col = restkey THEN Text(<<"N", "o", "n", "e">>) ELSE col

\* The lines of the details that begin with the text prefix.
LinesWith(details, prefix) == {j \in 1..Len(details) : IsPrefix(prefix, details[j])}

\* The rows of the sample whose value under col is a str that is not blank
\* and is a float literal.
ParsedAt(sample, col) ==
    {i \in 1..Len(sample) :
        LET v == DictGet(sample[i], col)
        IN  v.t = "str" /\ ~IsBlank(v.s) /\ FloatLiteral(v.s)}

\* The decimal numeral of a natural number.
RECURSIVE Numeral(_)
Numeral(n) == IF n < 10 THEN <<48 + n>> ELSE Numeral(n \div 10) \o <<48 + (n % 10)>>

\* The number written by the first n characters of s, all of them digits.
RECURSIVE Whole(_, _)
Whole(s, n) == IF n = 0 THEN 0 ELSE 10 * Whole(s, n - 1) + (s[n] - 48)

\* s is a plain decimal: digits, then at most a point and two more digits.
PointOf(s) == IF \E i \in 1..Len(s) : s[i] = 46
              THEN CHOOSE i \in 1..Len(s) : s[i] = 46 ELSE Len(s) + 1

PlainDecimal(s) ==
    /\ PointOf(s) > 1 /\ Len(s) <= PointOf(s) + 2
    /\ \A i \in 1..Len(s) : i # PointOf(s) => (48 <= s[i] /\ s[i] <= 57)

\* The value of a plain decimal, in hundredths.
Cents(s) ==
    100 * Whole(s, PointOf(s) - 1)
    + (IF Len(s) > PointOf(s) THEN 10 * (s[PointOf(s) + 1] - 48) ELSE 0)
    + (IF Len(s) > PointOf(s) + 1 THEN s[PointOf(s) + 2] - 48 ELSE 0)

CentsAt(sample, col, i) == Cents(DictGet(sample[i], col).s)

RECURSIVE SumOver(_, _, _)
SumOver(sample, col, I) ==
    IF I = {} THEN 0
    ELSE LET i == CHOOSE x \in I : TRUE
         IN  CentsAt(sample, col, i) + SumOver(sample, col, I \ {i})

\* A number of hundredths as printed with two decimals.
TwoDecimals(h) == Numeral(h \div 100) \o <<46, 48 + ((h % 100) \div 10), 48 + (h % 10)>>

\* The numbers of hundredths nearest to sm / n: one, or two when sm / n lies
\* midway between them.
Nearest(sm, n) ==
    {a \in {sm \div n, sm \div n + 1} : 2 * (a * n - sm) <= n /\ 2 * (sm - a * n) <= n}

AvgText == Text(<<":", " ", "a", "v", "g", " ">>)
MinText == Text(<<",", " ", "m", "i", "n", " ">>)
MaxText == Text(<<",", " ", "m", "a", "x", " ">>)
BasedText ==
    Text(<<" ", "b", "a", "s", "e", "d", " ", "o", "n", " ",
           "s", "a", "m", "p", "l", "e">>)
ModeText ==
    Text(<<":", " ", "m", "o", "s", "t", " ", "f", "r", "e", "q", "u", "e", "n",
           "t", " ", "v", "a", "l", "u", "e", " ", "i", "s", " ", "'">>)
CountText == Text(<<"'", " ", "(">>)
OccurrencesText ==
    Text(<<" ", "o", "c", "c", "u", "r", "r", "e", "n", "c", "e", "s", " ",
           "i", "n", " ", "s", "a", "m", "p", "l", "e", ")">>)

\* The line of a numeric column with mean a, least mn and greatest mx, in
\* hundredths.
NumericText(col, a, mn, mx) ==
    Label(col) \o AvgText \o TwoDecimals(a) \o MinText \o TwoDecimals(mn)
        \o MaxText \o TwoDecimals(mx) \o BasedText

\* The least and the greatest of the parsed values of a column.
Least(sample, col, P) ==
    CHOOSE m \in {CentsAt(sample, col, i) : i \in P} :
        \A i \in P : m <= CentsAt(sample, col, i)

Greatest(sample, col, P) ==
    CHOOSE m \in {CentsAt(sample, col, i) : i \in P} :
        \A i \in P : m >= CentsAt(sample, col, i)

\* C7: a request for the insights of a stored dataset succeeds, and for each
\* of its columns typed int or float the insight has one line when a sample
\* value parses, with the least and the greatest of the parsed values and
\* their mean printed to the nearest hundredth, and no line when none parses.
NumericLinePerParsedColumn ==
    /\ req.op = "generate_insights" /\ Referenced(datasets, req.dataset_id)
          => resp.status = 200
    /\ Insighted =>
        \A d \in {Subject} : \A details \in {resp.body[1].details} :
            \A c \in 1..Len(d.columns) :
                d.columns[c].type \in {"int", "float"} =>
                    \A col \in {d.columns[c].name} :
                    \A P \in {ParsedAt(d.sample, col)} :
                    \A L \in {LinesWith(details, Label(col) \o AvgText)} :
                        /\ LinesWith(details, Label(col) \o ModeText) = {}
                        /\ P = {} => L = {}
                        /\ P # {} => Cardinality(L) = 1
                        /\ P # {} /\ (\A i \in P : PlainDecimal(DictGet(d.sample[i], col).s)) =>
                              \A j \in L :
                                 \E a \in Nearest(SumOver(d.sample, col, P), Cardinality(P)) :
                                    details[j] = NumericText(col, a,
                                                    Least(d.sample, col, P),
                                                    Greatest(d.sample, col, P))

\* A numeric column whose sample holds a parsed value, a word and a blank.
NumericLineWitness ==
    /\ Insighted
    /\ \E c \in 1..Len(Subject.columns) :
         /\ Subject.columns[c].type \in {"int", "float"}
         /\ LinesWith(resp.body[1].details, Label(Subject.columns[c].name) \o AvgText) # {}
         /\ \E i \in 1..Len(Subject.sample) :
               DictGet(Subject.sample[i], Subject.columns[c].name) = StrVal(Text(<<"a">>))
         /\ \E i \in 1..Len(Subject.sample) :
               DictGet(Subject.sample[i], Subject.columns[c].name) = StrVal(<<>>)
         /\ \E i \in 1..Len(Subject.sample) :
               DictGet(Subject.sample[i], Subject.columns[c].name) = StrVal(Text(<<"1">>))

\* The rows of the sample whose value under col is neither None nor "".
PresentAt(sample, col) ==
    {i \in 1..Len(sample) :
        LET v == DictGet(sample[i], col)
        IN  v.t # "none" /\ v # StrVal(<<>>)}

Occurrences(sample, col, I, s) ==
    Cardinality({i \in I : str(DictGet(sample[i], col)) = s})

FirstAt(sample, col, I, s) ==
    CHOOSE i \in I :
        /\ str(DictGet(sample[i], col)) = s
        /\ \A k \in I : str(DictGet(sample[k], col)) = s => i <= k

\* The line of a string column that names the value s with n occurrences.
ModeLine(col, s, n) ==
    Label(col) \o ModeText \o s \o CountText \o Numeral(n) \o OccurrencesText

\* The value at row i occurs at least as often as every other, and earlier
\* than the others that occur as often.
FirstMode(sample, col, I, i) ==
    \A s \in {str(DictGet(sample[i], col))} :
    \A k \in I :
        \A t \in {str(DictGet(sample[k], col))} :
            /\ Occurrences(sample, col, I, t) <= Occurrences(sample, col, I, s)
            /\ Occurrences(sample, col, I, t) = Occurrences(sample, col, I, s) =>
                  FirstAt(sample, col, I, s) <= FirstAt(sample, col, I, t)

Configured == env.db /\ env.bson

\* C9: with the store configured, save_chart for a dataset_id of no dataset
\* answers with a client error (4xx) and leaves the chart collection as it
\* was; every stored chart names a dataset created before it.
SaveChartChecksDataset ==
    [][ /\ Configured /\ req'.op = "save_chart"
           /\ ~Referenced(datasets, req'.payload.dataset_id)
           => /\ resp'.status >= 400 /\ resp'.status < 500
              /\ charts' = charts
        /\ \A i \in 1..Len(charts') :
              \E j \in 1..Len(datasets') :
                  /\ ObjectIdStr(datasets'[j]._id) = charts'[i].dataset_id
                  /\ Created(datasets'[j]) < Created(charts'[i]) ]_vars

\* C10: a stored dataset stays as it is and where it is: an upload adds at
\* most one dataset and nothing else, whatever was answered while it waited
\* for its content; generate_insights adds to the insights only, save_chart
\* adds to the charts only, the other requests change no document.
DatasetsImmutable ==
    [][ /\ IsPrefix(datasets, datasets')
        /\ IsPrefix(insights, insights')
        /\ IsPrefix(charts, charts')
        /\ awaiting' # awaiting =>
              /\ insights' = insights /\ charts' = charts
              /\ Len(datasets') <= Len(datasets) + 1
        /\ awaiting' = awaiting /\ req'.op = "upload_dataset" =>
              datasets' = datasets /\ insights' = insights /\ charts' = charts
        /\ awaiting' = awaiting /\ req'.op = "generate_insights" =>
              /\ datasets' = datasets /\ charts' = charts
              /\ Len(insights') <= Len(insights) + 1
        /\ awaiting' = awaiting /\ req'.op = "save_chart" =>
              /\ datasets' = datasets /\ insights' = insights
              /\ Len(charts') <= Len(charts) + 1
        /\ awaiting' = awaiting
           /\ req'.op \in {"list_datasets", "get_dataset", "list_charts"} =>
              datasets' = datasets /\ insights' = insights /\ charts' = charts
      ]_vars

\* Two datasets, then an insight and a chart for the first of them.
DatasetsImmutableWitness ==
    /\ Len(datasets) = 2
    /\ \E i \in 1..Len(insights) :
         /\ insights[i].dataset_id = ObjectIdStr(datasets[1]._id)
         /\ Created(insights[i]) > Created(datasets[2])
    /\ \E i \in 1..Len(charts) :
         /\ charts[i].dataset_id = ObjectIdStr(datasets[1]._id)
         /\ Created(charts[i]) > Created(datasets[2])

====
